---- MODULE Spec2Model ----
(***************************************************************************)
(* BioSim: an island of landscape cells populated by herbivores and        *)
(* carnivores (src/src/biosim/animals.py, landscape.py, island.py,         *)
(* simulation.py).                                                         *)
(*                                                                         *)
(* Numbers.  Weights, fodder, appetites and the species parameters are     *)
(* Python floats; here they are fixed-point integers in thousandths        *)
(* (20.0 kg is 20000).  Fitness and probabilities are in thousandths too   *)
(* (0.25 is 250).  Ages are whole years.  random.random() < p is never    *)
(* true for p <= 0, always true for p >= 1, and otherwise the outcome of   *)
(* the draw, which the caller of an operator chooses.                      *)
(***************************************************************************)
EXTENDS Integers, Sequences, FiniteSets, TLC

VARIABLES
  geogr,      \* the geography text handed to Island(...), a sequence of characters
  built,      \* "no": Island(...) not yet called; "yes": self.map exists; "failed": it raised
  map,        \* Island.map: (row, column) -> cell object
  keys,       \* the keys of Island.map in insertion order, the order of its loops
  params,     \* Herbivore.parameters and Carnivore.parameters (class level)
  lparams,    \* Lowland/Highland/Desert/Water.parameters (class level)
  pc,         \* the loop the running Island method is in; "idle" when none runs
  idx,        \* position of that loop in self.map.items() (1-based)
  lastOp,     \* the Island method called last
  arg,        \* its argument
  raised,     \* the exception the last call ended with, "none" if it returned
  msg,        \* which raise statement it was
  nextId,     \* identity of the next animal object created
  work,       \* size of the run so far: records placed, updates and cycles called
  before,     \* Island.map as it was when the last call began
  phase,      \* the last step of the running call each cell has completed
  hops,       \* how often each animal was routed into another cell in the running pass
  accepted,   \* no call that set the island up (Island, place_population, set_*) has raised
  step,       \* BioSim.step: the annual cycles that have returned
  seed,       \* BioSim.seed, the seed both simulations were given
  rng,        \* the state of the generator of the random module, shared by the process
  twin,       \* the island of the second simulation: its map, nextId and step
  loop        \* the running Landscape method: its loop indices and the animal calls made

vars == <<geogr, built, map, keys, params, lparams, pc, idx, lastOp, arg, raised, msg,
          nextId, work, before, phase, hops, accepted, step, seed, rng, twin, loop>>

(* the state of the random module and of a second simulation, and the      *)
(* frame of a Landscape method that is called on a cell directly           *)
Others == <<seed, rng, twin, loop>>

----------------------------------------------------------------------------
(* Bounds of the model *)

MaxWork == 3
MaxEdits == 2
MaxRows == 3
MaxCols == 4

Scale == 10 * 100

(* Python's None, and a value that is not None: an optional value is a set *)
(* with at most one element.                                               *)
None == {}
Some(v) == {v}
Get(o) == CHOOSE v \in o : TRUE

Min(a, b) == IF a < b THEN a ELSE b
Max(a, b) == IF a > b THEN a ELSE b
FixMul(a, b) == (a * b) \div Scale

----------------------------------------------------------------------------
(* animals.py *)

HerbivoreParameters ==
  [w_birth |-> 8000, sigma_birth |-> 1500, beta |-> 900, eta |-> 50,
   a_half |-> 40000, phi_age |-> 600, w_half |-> 10000, phi_weight |-> 100,
   mu |-> 250, gamma |-> 200, zeta |-> 3500, xi |-> 1200,
   omega |-> 400, F |-> 10000, DeltaPhiMax |-> None]

CarnivoreParameters ==
  [w_birth |-> 6000, sigma_birth |-> 1000, beta |-> 750, eta |-> 125,
   a_half |-> 40000, phi_age |-> 300, w_half |-> 4000, phi_weight |-> 400,
   mu |-> 400, gamma |-> 800, zeta |-> 3500, xi |-> 1100,
   omega |-> 800, F |-> 50000, DeltaPhiMax |-> Some(10000)]

Species == {"Herbivore", "Carnivore"}

(* 1 / (1 + math.exp(x)) in thousandths, x in thousandths: the values at   *)
(* x = -7 .. 7, linear in between.  The quotient lies strictly between 0   *)
(* and 1 for every argument the model reaches, so it is kept in 1 .. 999.  *)
LogisticTable == <<999, 998, 993, 982, 953, 881, 731, 500, 269, 119, 47, 18, 7, 2, 1>>

Logistic(x) ==
  IF x <= -7 * Scale THEN 999
  ELSE IF x >= 7 * Scale THEN 1
  ELSE LET k == x \div Scale
           f == x - k * Scale
           lo == LogisticTable[k + 8]
           hi == LogisticTable[k + 9]
       IN lo - ((lo - hi) * f) \div Scale

(* Animals.update_fitness: the fitness of an animal of that age and weight *)
FitnessOf(age, weight, P) ==
  IF weight <= 0 THEN 0
  ELSE LET q_pos == Logistic(FixMul(P.phi_age, age * Scale - P.a_half))
           q_neg == Logistic(FixMul(-P.phi_weight, weight - P.w_half))
       IN Max(1, FixMul(q_pos, q_neg))

UpdateFitness(a, P) == [a EXCEPT !.fitness = FitnessOf(a.age, a.weight, P)]

(* the largest x, in thousandths, math.exp(x) has a float for: above it    *)
(* math.exp raises OverflowError('math range error')                       *)
ExpMax == 709 * Scale + 782

(* Animals.update_fitness raises out of one of its two math.exp calls *)
Overflows(age, weight, P) ==
  /\ weight > 0
  /\ \/ FixMul(P.phi_age, age * Scale - P.a_half) > ExpMax
     \/ FixMul(-P.phi_weight, weight - P.w_half) > ExpMax

RegainAppetite(a, P) == [a EXCEPT !.appetite = P.F]

(* random.gauss(w_birth, sigma_birth): the draw z standard deviations from  *)
(* the mean.                                                               *)
Gauss(P, z) == P.w_birth + z * P.sigma_birth

(* Animals.__init__(age, weight): gauss is what random.gauss returned.     *)
(* The result is the object, or the exception the constructor raised.      *)
AnimalInit(species, id, age, weight, gauss, P) ==
  LET a == IF age # None THEN Get(age) ELSE 0
      w == IF weight # None THEN Get(weight) ELSE gauss
  IN IF a < 0 THEN [raised |-> "ValueError", msg |-> "age"]
     ELSE IF w < 0 THEN [raised |-> "ValueError", msg |-> "weight"]
     ELSE IF Overflows(a, w, P) THEN [raised |-> "OverflowError", msg |-> "math range error"]
     ELSE [raised |-> "none", msg |-> "",
           animal |-> RegainAppetite(
                        UpdateFitness([id |-> id, species |-> species, age |-> a,
                                       weight |-> w, fitness |-> 0, appetite |-> 0], P),
                        P)]

(* a faulty gives_birth: the newborn's weight is not held against the      *)
(* parent's                                                                *)
GivesBirthWithoutXiCheck(a, pop_size, draw, z, id, P) ==
  LET preg_prob == Min(Scale, FixMul(FixMul(P.gamma, a.fitness), (pop_size - 1) * Scale))
      pregnant == IF preg_prob <= 0 THEN FALSE
                  ELSE IF preg_prob >= Scale THEN TRUE ELSE draw
      born == AnimalInit(a.species, id, None, None, Gauss(P, z), P)
  IN IF ~pregnant THEN [raised |-> "none", msg |-> "", parent |-> a, newborn |-> None]
     ELSE IF born.raised # "none"
       THEN [raised |-> born.raised, msg |-> born.msg, parent |-> a, newborn |-> None]
     ELSE IF a.weight < FixMul(P.zeta, P.w_birth + P.sigma_birth)
       THEN [raised |-> "none", msg |-> "", parent |-> a, newborn |-> None]
     ELSE [raised |-> "none", msg |-> "",
           parent |-> UpdateFitness(
                        [a EXCEPT !.weight = @ - FixMul(P.xi, born.animal.weight)], P),
           newborn |-> Some(born.animal)]

(* a faulty gives_birth: the parent counts among its own partners *)
GivesBirthCountingParent(a, pop_size, draw, z, id, P) ==
  LET preg_prob == Min(Scale, FixMul(FixMul(P.gamma, a.fitness), pop_size * Scale))
      pregnant == IF preg_prob <= 0 THEN FALSE
                  ELSE IF preg_prob >= Scale THEN TRUE ELSE draw
      born == AnimalInit(a.species, id, None, None, Gauss(P, z), P)
  IN IF ~pregnant THEN [raised |-> "none", msg |-> "", parent |-> a, newborn |-> None]
     ELSE IF born.raised # "none"
       THEN [raised |-> born.raised, msg |-> born.msg, parent |-> a, newborn |-> None]
     ELSE IF a.weight < FixMul(P.zeta, P.w_birth + P.sigma_birth)
       THEN [raised |-> "none", msg |-> "", parent |-> a, newborn |-> None]
     ELSE IF a.weight < FixMul(P.xi, born.animal.weight)
       THEN [raised |-> "none", msg |-> "", parent |-> a, newborn |-> None]
     ELSE [raised |-> "none", msg |-> "",
           parent |-> UpdateFitness(
                        [a EXCEPT !.weight = @ - FixMul(P.xi, born.animal.weight)], P),
           newborn |-> Some(born.animal)]

(* a faulty gives_birth: the parent's weight is held against the          *)
(* newborn's only                                                          *)
GivesBirthWithoutZetaCheck(a, pop_size, draw, z, id, P) ==
  LET preg_prob == Min(Scale, FixMul(FixMul(P.gamma, a.fitness), (pop_size - 1) * Scale))
      pregnant == IF preg_prob <= 0 THEN FALSE
                  ELSE IF preg_prob >= Scale THEN TRUE ELSE draw
      born == AnimalInit(a.species, id, None, None, Gauss(P, z), P)
  IN IF ~pregnant THEN [raised |-> "none", msg |-> "", parent |-> a, newborn |-> None]
     ELSE IF born.raised # "none"
       THEN [raised |-> born.raised, msg |-> born.msg, parent |-> a, newborn |-> None]
     ELSE IF a.weight < FixMul(P.xi, born.animal.weight)
       THEN [raised |-> "none", msg |-> "", parent |-> a, newborn |-> None]
     ELSE [raised |-> "none", msg |-> "",
           parent |-> UpdateFitness(
                        [a EXCEPT !.weight = @ - FixMul(P.xi, born.animal.weight)], P),
           newborn |-> Some(born.animal)]

(* Animals.gives_birth(pop_size): draw is whether random.random() came out *)
(* below a probability strictly between 0 and 1, z the newborn's weight    *)
(* draw, id the identity the newborn object gets.  newborn is None when    *)
(* the method returned False.                                              *)
GivesBirth(a, pop_size, draw, z, id, P) ==
  LET preg_prob == Min(Scale, FixMul(FixMul(P.gamma, a.fitness), (pop_size - 1) * Scale))
      pregnant == IF preg_prob <= 0 THEN FALSE
                  ELSE IF preg_prob >= Scale THEN TRUE ELSE draw
      born == AnimalInit(a.species, id, None, None, Gauss(P, z), P)
  IN IF ~pregnant THEN [raised |-> "none", msg |-> "", parent |-> a, newborn |-> None]
     ELSE IF born.raised # "none"
       THEN [raised |-> born.raised, msg |-> born.msg, parent |-> a, newborn |-> None]
     ELSE IF a.weight < FixMul(P.zeta, P.w_birth + P.sigma_birth)
       THEN [raised |-> "none", msg |-> "", parent |-> a, newborn |-> None]
     ELSE IF a.weight < FixMul(P.xi, born.animal.weight)
       THEN [raised |-> "none", msg |-> "", parent |-> a, newborn |-> None]
     ELSE [raised |-> "none", msg |-> "",
           parent |-> UpdateFitness(
                        [a EXCEPT !.weight = @ - FixMul(P.xi, born.animal.weight)], P),
           newborn |-> Some(born.animal)]

(* Animals.migrate() *)
Migrate(a, draw, P) ==
  LET p == FixMul(P.mu, a.fitness)
  IN IF p <= 0 THEN FALSE ELSE IF p >= Scale THEN TRUE ELSE draw

(* Animals.update_age() with years = None *)
UpdateAge(a, P) == UpdateFitness([a EXCEPT !.age = @ + 1], P)

(* Animals.metabolism() *)
Metabolism(a, P) == UpdateFitness([a EXCEPT !.weight = @ - FixMul(P.eta, @)], P)

(* a faulty dies: only a weight below 0 is certain death *)
DiesBelowZeroOnly(a, draw, P) ==
  IF a.weight < 0 THEN TRUE
  ELSE LET p == FixMul(P.omega, Scale - a.fitness)
       IN IF p <= 0 THEN FALSE ELSE IF p >= Scale THEN TRUE ELSE draw

(* Animals.dies() *)
Dies(a, draw, P) ==
  IF a.weight <= 0 THEN TRUE
  ELSE LET p == FixMul(P.omega, Scale - a.fitness)
       IN IF p <= 0 THEN FALSE ELSE IF p >= Scale THEN TRUE ELSE draw

(* a faulty herbivore_feeding: the herbivore eats its whole appetite        *)
(* whatever fodder there is                                                *)
HerbivoreFeedingWholeAppetite(a, landscape_fodder, P) ==
  [portion |-> a.appetite,
   animal |-> UpdateFitness([a EXCEPT !.weight = @ + FixMul(P.beta, a.appetite)], P)]

(* Herbivore.herbivore_feeding(landscape_fodder) *)
HerbivoreFeeding(a, landscape_fodder, P) ==
  LET herbivore_portion ==
        IF 0 < landscape_fodder /\ landscape_fodder < a.appetite
          THEN landscape_fodder ELSE a.appetite
  IN [portion |-> herbivore_portion,
      animal |-> UpdateFitness(
                   [a EXCEPT !.weight = @ + FixMul(P.beta, herbivore_portion)], P)]

(* a faulty carnivore_feeding: only a carnivore less fit than its prey     *)
(* gives up                                                                *)
CarnivoreFeedingOnEqualFitness(carn, herb, draw, P) ==
  LET delta_phi == carn.fitness - herb.fitness
      dpm == Get(P.DeltaPhiMax)
      prey_prob == IF 0 < delta_phi /\ delta_phi < dpm
                     THEN (delta_phi * Scale) \div dpm ELSE Scale
      hit == IF prey_prob <= 0 THEN FALSE
             ELSE IF prey_prob >= Scale THEN TRUE ELSE draw
      carn_portion == IF 0 < carn.appetite /\ carn.appetite < herb.weight
                        THEN carn.appetite ELSE herb.weight
  IN IF carn.fitness < herb.fitness THEN [killed |-> FALSE, carn |-> carn]
     ELSE IF hit
       THEN [killed |-> TRUE,
             carn |-> UpdateFitness(
                        [carn EXCEPT !.appetite = @ - carn_portion,
                                     !.weight = @ + FixMul(P.beta, carn_portion)], P)]
     ELSE [killed |-> FALSE, carn |-> carn]

(* Carnivore.carnivore_feeding(herb) *)
CarnivoreFeeding(carn, herb, draw, P) ==
  LET delta_phi == carn.fitness - herb.fitness
      dpm == Get(P.DeltaPhiMax)
      prey_prob == IF 0 < delta_phi /\ delta_phi < dpm
                     THEN (delta_phi * Scale) \div dpm ELSE Scale
      hit == IF prey_prob <= 0 THEN FALSE
             ELSE IF prey_prob >= Scale THEN TRUE ELSE draw
      carn_portion == IF 0 < carn.appetite /\ carn.appetite < herb.weight
                        THEN carn.appetite ELSE herb.weight
  IN IF carn.fitness <= herb.fitness THEN [killed |-> FALSE, carn |-> carn]
     ELSE IF hit
       THEN [killed |-> TRUE,
             carn |-> UpdateFitness(
                        [carn EXCEPT !.appetite = @ - carn_portion,
                                     !.weight = @ + FixMul(P.beta, carn_portion)], P)]
     ELSE [killed |-> FALSE, carn |-> carn]

----------------------------------------------------------------------------
(* landscape.py: the cell objects *)

Letters == {"W", "L", "H", "D"}

ClassOf(letter) ==
  CASE letter = "L" -> "Lowland"
    [] letter = "H" -> "Highland"
    [] letter = "D" -> "Desert"
    [] letter = "W" -> "Water"

LandscapeParameters ==
  [Lowland |-> [f_max |-> 800 * Scale], Highland |-> [f_max |-> 300 * Scale],
   Desert |-> [f_max |-> 0], Water |-> [f_max |-> 0]]

(* Landscape.__init__() with no populations given *)
LandscapeInit(classname, lp) ==
  [classname |-> classname,
   fodder |-> lp[classname].f_max,
   herb_pop |-> <<>>,
   migrating_herbs |-> <<>>,
   carn_pop |-> <<>>,
   migrating_carns |-> <<>>,
   habitability |-> (classname # "Water")]

(* list.sort(key=fitness, reverse=decreasing): stable, equal keys keep     *)
(* their order in both directions.                                         *)
RECURSIVE InsertByFitness(_, _, _, _)
InsertByFitness(sorted, a, decreasing, i) ==
  IF i > Len(sorted) THEN Append(sorted, a)
  ELSE IF (decreasing /\ sorted[i].fitness < a.fitness)
          \/ (~decreasing /\ sorted[i].fitness > a.fitness)
    THEN SubSeq(sorted, 1, i - 1) \o <<a>> \o SubSeq(sorted, i, Len(sorted))
  ELSE InsertByFitness(sorted, a, decreasing, i + 1)

RECURSIVE SortFrom(_, _, _, _)
SortFrom(pop, i, decreasing, acc) ==
  IF i > Len(pop) THEN acc
  ELSE SortFrom(pop, i + 1, decreasing, InsertByFitness(acc, pop[i], decreasing, 1))

(* a faulty sort: the fittest first, whatever is asked for *)
SortHerbsFittestFirst(cell, decreasing) ==
  [cell EXCEPT !.herb_pop = SortFrom(@, 1, TRUE, <<>>)]

(* a faulty sort: the least fit first, whatever is asked for *)
SortHerbsLeastFitFirst(cell, decreasing) ==
  [cell EXCEPT !.herb_pop = SortFrom(@, 1, FALSE, <<>>)]

(* Landscape.sort_herbs_by_fitness(decreasing) *)
SortHerbsByFitness(cell, decreasing) ==
  [cell EXCEPT !.herb_pop = SortFrom(@, 1, decreasing, <<>>)]

(* a faulty regrowth: fodder grows back to f_max and is never taken away *)
RegrowthOnlyUpwards(cell, lp) ==
  IF cell.fodder < lp[cell.classname].f_max
    THEN [cell EXCEPT !.fodder = lp[cell.classname].f_max]
    ELSE cell

(* Landscape.regrowth() *)
Regrowth(cell, lp) == [cell EXCEPT !.fodder = lp[cell.classname].f_max]

(* the loop of herbivores_eating from the i-th herbivore on *)
RECURSIVE HerbLoop(_, _, _)
HerbLoop(cell, i, P) ==
  IF i > Len(cell.herb_pop) THEN cell
  ELSE LET herb == RegainAppetite(cell.herb_pop[i], P) IN
    IF cell.fodder > 0
      THEN LET fed == HerbivoreFeeding(herb, cell.fodder, P)
           IN HerbLoop([cell EXCEPT !.herb_pop[i] = fed.animal,
                                    !.fodder = @ - fed.portion], i + 1, P)
      ELSE [cell EXCEPT !.herb_pop[i] = herb]

(* Landscape.herbivores_eating() *)
HerbivoresEating(cell, P) == HerbLoop(SortHerbsByFitness(cell, TRUE), 1, P)

(* one carnivore's pass over the herbivores: the inner loop of             *)
(* carnivores_eating from the j-th herbivore on                            *)
RECURSIVE HuntLoop(_, _, _, _, _, _)
HuntLoop(carn, herbs, j, survivors, kills, P) ==
  IF j > Len(herbs) THEN [carn |-> carn, survivors |-> survivors]
  ELSE LET r == CarnivoreFeeding(carn, herbs[j], kills[<<carn.id, herbs[j].id>>], P)
       IN HuntLoop(r.carn, herbs, j + 1,
                   IF r.killed THEN survivors ELSE Append(survivors, herbs[j]),
                   kills, P)

(* the outer loop of carnivores_eating from the i-th carnivore on *)
RECURSIVE CarnLoop(_, _, _, _)
CarnLoop(cell, i, kills, P) ==
  IF i > Len(cell.carn_pop) THEN cell
  ELSE LET carn == RegainAppetite(cell.carn_pop[i], P) IN
    IF Len(cell.herb_pop) > 0 /\ carn.appetite > 0
      THEN LET sorted == SortHerbsByFitness(cell, FALSE)
               hunt == HuntLoop(carn, sorted.herb_pop, 1, <<>>, kills, P)
           IN CarnLoop([cell EXCEPT !.carn_pop[i] = hunt.carn,
                                    !.herb_pop = hunt.survivors], i + 1, kills, P)
      ELSE CarnLoop([cell EXCEPT !.carn_pop[i] = carn], i + 1, kills, P)

(* Landscape.carnivores_eating(): order is the list random.shuffle left,   *)
(* kills the outcome of each draw of a kill probability in (0, 1)          *)
CarnivoresEating(cell, order, kills, P) ==
  CarnLoop([cell EXCEPT !.carn_pop = [k \in 1..Len(order) |-> cell.carn_pop[order[k]]]],
           1, kills, P)

(* newborn_pop(population) of Landscape.reproduction from the i-th parent  *)
(* on: the parents as they are left, and the newborns                      *)
RECURSIVE NewbornPop(_, _, _, _, _, _, _, _)
NewbornPop(population, i, pop_size, newborns, births, zs, id, P) ==
  IF i > Len(population)
    THEN [raised |-> "none", msg |-> "", population |-> population,
          newborns |-> newborns, nextId |-> id]
  ELSE LET r == GivesBirth(population[i], pop_size, births[population[i].id],
                           zs[population[i].id], id, P)
           pop1 == [population EXCEPT ![i] = r.parent]
       IN IF r.raised # "none"
            THEN [raised |-> r.raised, msg |-> r.msg, population |-> pop1,
                  newborns |-> newborns, nextId |-> id]
          ELSE IF r.newborn = None
            THEN NewbornPop(pop1, i + 1, pop_size, newborns, births, zs, id, P)
          ELSE NewbornPop(pop1, i + 1, pop_size, Append(newborns, Get(r.newborn)),
                          births, zs, id + 1, P)

(* Landscape.reproduction(): herbivores first; an exception out of the     *)
(* newborn's constructor leaves the parents already served as they are and *)
(* skips both extend calls that have not run.                              *)
Reproduction(cell, births, zs, id, prm) ==
  LET h == NewbornPop(cell.herb_pop, 1, Len(cell.herb_pop), <<>>, births, zs, id,
                      prm.Herbivore)
      cellH == [cell EXCEPT !.herb_pop = h.population \o h.newborns]
      c == NewbornPop(cell.carn_pop, 1, Len(cell.carn_pop), <<>>, births, zs, h.nextId,
                      prm.Carnivore)
  IN IF h.raised # "none"
       THEN [raised |-> h.raised, msg |-> h.msg,
             cell |-> [cell EXCEPT !.herb_pop = h.population], nextId |-> h.nextId]
     ELSE IF c.raised # "none"
       THEN [raised |-> c.raised, msg |-> c.msg,
             cell |-> [cellH EXCEPT !.carn_pop = c.population], nextId |-> c.nextId]
     ELSE [raised |-> "none", msg |-> "",
           cell |-> [cellH EXCEPT !.carn_pop = c.population \o c.newborns],
           nextId |-> c.nextId]

(* a faulty animal_migration: the emigrants are returned but also stay in  *)
(* the cell's live lists                                                   *)
AnimalMigrationKeeping(cell, moves, prm) ==
  LET GoesH(a) == Migrate(a, moves[a.id], prm.Herbivore)
      GoesC(a) == Migrate(a, moves[a.id], prm.Carnivore)
  IN [migrators_herb |-> SelectSeq(cell.herb_pop, GoesH),
      migrators_carn |-> SelectSeq(cell.carn_pop, GoesC),
      cell |-> cell]

(* Landscape.animal_migration(): moves is the outcome of each draw of a    *)
(* migration probability in (0, 1)                                         *)
AnimalMigration(cell, moves, prm) ==
  LET GoesH(a) == Migrate(a, moves[a.id], prm.Herbivore)
      StaysH(a) == ~GoesH(a)
      GoesC(a) == Migrate(a, moves[a.id], prm.Carnivore)
      StaysC(a) == ~GoesC(a)
  IN [migrators_herb |-> SelectSeq(cell.herb_pop, GoesH),
      migrators_carn |-> SelectSeq(cell.carn_pop, GoesC),
      cell |-> [cell EXCEPT !.herb_pop = SelectSeq(@, StaysH),
                            !.carn_pop = SelectSeq(@, StaysC)]]

(* a faulty register_migrants: the migrant joins the live list at once *)
RegisterMigrantsLive(cell, migrator) ==
  IF migrator.species = "Herbivore"
    THEN [cell EXCEPT !.herb_pop = Append(@, migrator)]
    ELSE [cell EXCEPT !.carn_pop = Append(@, migrator)]

(* Landscape.register_migrants(migrator) *)
RegisterMigrants(cell, migrator) ==
  IF migrator.species = "Herbivore"
    THEN [cell EXCEPT !.migrating_herbs = Append(@, migrator)]
    ELSE [cell EXCEPT !.migrating_carns = Append(@, migrator)]

(* a faulty add_migraters_to_pop: the staging lists are cleared before     *)
(* they are added                                                          *)
AddMigratersToPopCleared(cell) ==
  [cell EXCEPT !.migrating_herbs = <<>>, !.migrating_carns = <<>>]

(* a faulty add_migraters_to_pop: the staging lists are added and kept *)
AddMigratersToPopKeeping(cell) ==
  [cell EXCEPT !.herb_pop = @ \o cell.migrating_herbs,
               !.carn_pop = @ \o cell.migrating_carns]

(* Landscape.add_migraters_to_pop() *)
AddMigratersToPop(cell) ==
  [cell EXCEPT !.herb_pop = @ \o cell.migrating_herbs,
               !.migrating_herbs = <<>>,
               !.carn_pop = @ \o cell.migrating_carns,
               !.migrating_carns = <<>>]

(* a faulty aging: only the carnivores grow older *)
AgingCarnivoresOnly(cell, prm) ==
  [cell EXCEPT !.carn_pop = [i \in 1..Len(@) |-> UpdateAge(@[i], prm.Carnivore)]]

(* Landscape.aging() *)
Aging(cell, prm) ==
  [cell EXCEPT !.herb_pop = [i \in 1..Len(@) |-> UpdateAge(@[i], prm.Herbivore)],
               !.carn_pop = [i \in 1..Len(@) |-> UpdateAge(@[i], prm.Carnivore)]]

(* Landscape.weight_loss() *)
WeightLoss(cell, prm) ==
  [cell EXCEPT !.herb_pop = [i \in 1..Len(@) |-> Metabolism(@[i], prm.Herbivore)],
               !.carn_pop = [i \in 1..Len(@) |-> Metabolism(@[i], prm.Carnivore)]]

(* Landscape.population_death(): deaths is the outcome of each draw of a   *)
(* death probability in (0, 1)                                             *)
PopulationDeath(cell, deaths, prm) ==
  LET SurvivesH(a) == ~Dies(a, deaths[a.id], prm.Herbivore)
      SurvivesC(a) == ~Dies(a, deaths[a.id], prm.Carnivore)
  IN [cell EXCEPT !.herb_pop = SelectSeq(@, SurvivesH),
                  !.carn_pop = SelectSeq(@, SurvivesC)]

(* the for loop of Landscape.add_population from the i-th record on; zs[i] *)
(* is the weight draw of the i-th constructor call                         *)
RECURSIVE AddLoop(_, _, _, _, _, _)
AddLoop(cell, animals, i, zs, id, prm) ==
  IF i > Len(animals)
    THEN [raised |-> "none", msg |-> "", cell |-> cell, nextId |-> id]
  ELSE LET animal == animals[i] IN
    IF "age" \notin DOMAIN animal \/ "weight" \notin DOMAIN animal
         \/ "species" \notin DOMAIN animal
      THEN [raised |-> "KeyError", msg |-> "key", cell |-> cell, nextId |-> id]
    ELSE IF animal.species \in Species
      THEN LET P == prm[animal.species]
               made == AnimalInit(animal.species, id, animal.age, animal.weight,
                                  Gauss(P, zs[i]), P)
           IN IF made.raised # "none"
                THEN [raised |-> made.raised, msg |-> made.msg, cell |-> cell, nextId |-> id]
              ELSE IF animal.species = "Herbivore"
                THEN AddLoop([cell EXCEPT !.herb_pop = Append(@, made.animal)],
                             animals, i + 1, zs, id + 1, prm)
              ELSE AddLoop([cell EXCEPT !.carn_pop = Append(@, made.animal)],
                           animals, i + 1, zs, id + 1, prm)
    ELSE [raised |-> "KeyError", msg |-> "species", cell |-> cell, nextId |-> id]

(* a faulty add_population: the habitability of the cell is not looked at *)
AddPopulationAnywhere(cell, animals, zs, id, prm) ==
  AddLoop(cell, animals, 1, zs, id, prm)

(* a faulty add_population: the habitability is looked at for each record, *)
(* so that an empty list is accepted by any cell                           *)
AddPopulationCheckedPerRecord(cell, animals, zs, id, prm) ==
  IF cell.habitability = TRUE \/ animals = <<>>
    THEN AddLoop(cell, animals, 1, zs, id, prm)
    ELSE [raised |-> "ValueError", msg |-> "water", cell |-> cell, nextId |-> id]

(* Landscape.add_population(animals) *)
AddPopulation(cell, animals, zs, id, prm) ==
  IF cell.habitability = TRUE
    THEN AddLoop(cell, animals, 1, zs, id, prm)
    ELSE [raised |-> "ValueError", msg |-> "water", cell |-> cell, nextId |-> id]

----------------------------------------------------------------------------
(* island.py: Island.createmap *)

(* geogr.split(sep='\n') *)
RECURSIVE SplitRows(_, _, _, _)
SplitRows(text, i, cur, acc) ==
  IF i > Len(text) THEN Append(acc, cur)
  ELSE IF text[i] = "\n" THEN SplitRows(text, i + 1, <<>>, Append(acc, cur))
  ELSE SplitRows(text, i + 1, Append(cur, text[i]), acc)

Split(text) == SplitRows(text, 1, <<>>, <<>>)

(* a faulty scan: only the first and the last row are held to be border *)
RECURSIVE ScanMapRowBorderOnly(_, _, _, _, _)
ScanMapRowBorderOnly(rows, r, c, acc, lp) ==
  IF r > Len(rows) THEN [raised |-> "none", msg |-> "", map |-> acc]
  ELSE IF c > Len(rows[r]) THEN ScanMapRowBorderOnly(rows, r + 1, 1, acc, lp)
  ELSE LET letter == rows[r][c] IN
    IF (r = 1 \/ r = Len(rows)) /\ letter # "W"
      THEN [raised |-> "ValueError", msg |-> "border", map |-> << >>]
    ELSE IF letter \in Letters
      THEN ScanMapRowBorderOnly(rows, r, c + 1,
                   acc @@ (<<r, c>> :> LandscapeInit(ClassOf(letter), lp)), lp)
    ELSE IF letter = " "
      THEN [raised |-> "ValueError", msg |-> "hole", map |-> << >>]
    ELSE [raised |-> "ValueError", msg |-> "invalid", map |-> << >>]

(* a faulty scan: of the columns only the first is held to be border *)
RECURSIVE ScanMapLeftBorderOnly(_, _, _, _, _)
ScanMapLeftBorderOnly(rows, r, c, acc, lp) ==
  IF r > Len(rows) THEN [raised |-> "none", msg |-> "", map |-> acc]
  ELSE IF c > Len(rows[r]) THEN ScanMapLeftBorderOnly(rows, r + 1, 1, acc, lp)
  ELSE LET letter == rows[r][c] IN
    IF (r = 1 \/ r = Len(rows)) /\ letter # "W"
      THEN [raised |-> "ValueError", msg |-> "border", map |-> << >>]
    ELSE IF c = 1 /\ letter # "W"
      THEN [raised |-> "ValueError", msg |-> "border", map |-> << >>]
    ELSE IF letter \in Letters
      THEN ScanMapLeftBorderOnly(rows, r, c + 1,
                   acc @@ (<<r, c>> :> LandscapeInit(ClassOf(letter), lp)), lp)
    ELSE IF letter = " "
      THEN [raised |-> "ValueError", msg |-> "hole", map |-> << >>]
    ELSE [raised |-> "ValueError", msg |-> "invalid", map |-> << >>]

(* the two nested enumerate loops of createmap, from (r, c) on *)
RECURSIVE ScanMap(_, _, _, _, _)
ScanMap(rows, r, c, acc, lp) ==
  IF r > Len(rows) THEN [raised |-> "none", msg |-> "", map |-> acc]
  ELSE IF c > Len(rows[r]) THEN ScanMap(rows, r + 1, 1, acc, lp)
  ELSE LET letter == rows[r][c] IN
    IF (r = 1 \/ r = Len(rows)) /\ letter # "W"
      THEN [raised |-> "ValueError", msg |-> "border", map |-> << >>]
    ELSE IF (c = 1 \/ c = Len(rows[r])) /\ letter # "W"
      THEN [raised |-> "ValueError", msg |-> "border", map |-> << >>]
    ELSE IF letter \in Letters
      THEN ScanMap(rows, r, c + 1,
                   acc @@ (<<r, c>> :> LandscapeInit(ClassOf(letter), lp)), lp)
    ELSE IF letter = " "
      THEN [raised |-> "ValueError", msg |-> "hole", map |-> << >>]
    ELSE [raised |-> "ValueError", msg |-> "invalid", map |-> << >>]

createmap(text, lp) ==
  LET rows == Split(text)
      unique_row_lenghts == {Len(rows[i]) : i \in 1..Len(rows)}
  IN IF Cardinality(unique_row_lenghts) # 1
       THEN [raised |-> "ValueError", msg |-> "rectangular", map |-> << >>]
       ELSE ScanMap(rows, 1, 1, << >>, lp)

(* the keys of the dict createmap returns, in the order it inserted them *)
KeysOf(text) ==
  LET rows == Split(text)
      n == Len(rows[1])
  IN [k \in 1..(Len(rows) * n) |-> <<((k - 1) \div n) + 1, ((k - 1) % n) + 1>>]

(* the validation loop of Animals.set_parameters from the i-th key on;     *)
(* new_params is the dict as the sequence of its (key, value) items        *)
RECURSIVE ValidateParameters(_, _, _)
ValidateParameters(P, new_params, i) ==
  IF i > Len(new_params) THEN [raised |-> "none", msg |-> ""]
  ELSE LET key == new_params[i][1]
           value == new_params[i][2]
       IN IF key \notin DOMAIN P THEN [raised |-> "KeyError", msg |-> "name"]
          ELSE IF key = "DeltaPhiMax"
            THEN IF P[key] = None THEN ValidateParameters(P, new_params, i + 1)
                 ELSE IF value <= 0 THEN [raised |-> "ValueError", msg |-> "DeltaPhiMax"]
                 ELSE ValidateParameters(P, new_params, i + 1)
          ELSE IF key = "eta"
            THEN IF value > Scale THEN [raised |-> "ValueError", msg |-> "eta"]
                 ELSE ValidateParameters(P, new_params, i + 1)
          ELSE IF value < 0 THEN [raised |-> "ValueError", msg |-> "positive"]
          ELSE ValidateParameters(P, new_params, i + 1)

(* cls.parameters.update(new_params) *)
UpdateParameters(P, new_params) ==
  [k \in DOMAIN P |->
     IF \E i \in 1..Len(new_params) : new_params[i][1] = k
       THEN LET i == CHOOSE i \in 1..Len(new_params) : new_params[i][1] = k
            IN IF k = "DeltaPhiMax" THEN Some(new_params[i][2]) ELSE new_params[i][2]
       ELSE P[k]]

(* a faulty set_parameters: each key is stored as soon as it has been      *)
(* validated, so the keys in front of a rejected one are kept               *)
SetParametersKeyByKey(P, new_params) ==
  LET v == ValidateParameters(P, new_params, 1)
      Passes(n) == ValidateParameters(P, SubSeq(new_params, 1, n), 1).raised = "none"
      good == CHOOSE n \in 0..Len(new_params) :
                /\ Passes(n)
                /\ \A k \in (n + 1)..Len(new_params) : ~Passes(k)
  IN [raised |-> v.raised, msg |-> v.msg,
      parameters |-> UpdateParameters(P, SubSeq(new_params, 1, good))]

(* Animals.set_parameters(new_params) on the class with parameters P *)
SetParameters(P, new_params) ==
  LET v == ValidateParameters(P, new_params, 1)
  IN [raised |-> v.raised, msg |-> v.msg,
      parameters |-> IF v.raised = "none" THEN UpdateParameters(P, new_params) ELSE P]

(* the validation loop of Landscape.set_parameters from the i-th key on *)
RECURSIVE ValidateFodder(_, _, _)
ValidateFodder(P, new_params, i) ==
  IF i > Len(new_params) THEN [raised |-> "none", msg |-> ""]
  ELSE LET key == new_params[i][1]
           value == new_params[i][2]
       IN IF key \notin DOMAIN P THEN [raised |-> "KeyError", msg |-> "name"]
          ELSE IF value < 0 THEN [raised |-> "ValueError", msg |-> "fodder"]
          ELSE ValidateFodder(P, new_params, i + 1)

(* Landscape.set_parameters(new_params) on the subclass with parameters P:  *)
(* the loop, then cls.parameters.update(new_params)                         *)
LandscapeSetParameters(P, new_params) ==
  LET v == ValidateFodder(P, new_params, 1)
  IN [raised |-> v.raised, msg |-> v.msg,
      parameters |->
        IF v.raised # "none" THEN P
        ELSE [k \in DOMAIN P |->
                IF \E i \in 1..Len(new_params) : new_params[i][1] = k
                  THEN new_params[CHOOSE i \in 1..Len(new_params) : new_params[i][1] = k][2]
                  ELSE P[k]]]

----------------------------------------------------------------------------
(* landscape.py: the two halves of a cell's year *)

(* a faulty pre_migration_cycle: the herbivores eat before the fodder      *)
(* regrows                                                                 *)
PreMigrationCycleEatingFirst(cell, order, kills, births, zs, id, lp, prm) ==
  CHOOSE result \in
    { Reproduction(hunted, births, zs, id, prm) :
        hunted \in { CarnivoresEating(regrown, order, kills, prm.Carnivore) :
          regrown \in { Regrowth(grazed, lp) :
            grazed \in { HerbivoresEating(cell, prm.Herbivore) } } } } : TRUE

(* Landscape.pre_migration_cycle(): regrowth, herbivores_eating,           *)
(* carnivores_eating, reproduction, in that order                          *)
PreMigrationCycle(cell, order, kills, births, zs, id, lp, prm) ==
  CHOOSE result \in
    { Reproduction(hunted, births, zs, id, prm) :
        hunted \in { CarnivoresEating(grazed, order, kills, prm.Carnivore) :
          grazed \in { HerbivoresEating(regrown, prm.Herbivore) :
            regrown \in { Regrowth(cell, lp) } } } } : TRUE

(* a faulty post_migration_cycle: the animals lose weight and die, and     *)
(* none of them grows older                                                *)
PostMigrationCycleWithoutAging(cell, deaths, prm) ==
  CHOOSE result \in
    { PopulationDeath(thinner, deaths, prm) :
        thinner \in { WeightLoss(cell, prm) } } : TRUE

(* Landscape.post_migration_cycle(): aging, weight_loss, population_death *)
PostMigrationCycle(cell, deaths, prm) ==
  CHOOSE result \in
    { PopulationDeath(thinner, deaths, prm) :
        thinner \in { WeightLoss(aged, prm) :
          aged \in { Aging(cell, prm) } } } : TRUE

----------------------------------------------------------------------------
(* island.py: Island.place_population, island_migration, annual_cycle_island *)

NCells == Len(keys)
Here == keys[idx]

ZAt(zs, i, j) == IF <<i, j>> \in DOMAIN zs THEN zs[<<i, j>>] ELSE 0

(* a faulty loop: the records added by an entry that fails are taken back *)
RECURSIVE PlaceLoopUndoingEntry(_, _, _, _, _, _)
PlaceLoopUndoingEntry(m, populations, i, zs, id, prm) ==
  IF i > Len(populations) THEN [raised |-> "none", msg |-> "", map |-> m, nextId |-> id]
  ELSE LET loc == populations[i].loc IN
    IF loc \in DOMAIN m
      THEN LET r == AddPopulation(m[loc], populations[i].pop,
                                  [j \in 1..Len(populations[i].pop) |-> ZAt(zs, i, j)],
                                  id, prm)
               m1 == [m EXCEPT ![loc] = r.cell]
           IN IF r.raised # "none"
                THEN [raised |-> r.raised, msg |-> r.msg, map |-> m, nextId |-> r.nextId]
                ELSE PlaceLoopUndoingEntry(m1, populations, i + 1, zs, r.nextId, prm)
      ELSE [raised |-> "ValueError", msg |-> "outside", map |-> m, nextId |-> id]

(* a faulty loop: every location is looked up before any entry is placed *)
RECURSIVE PlaceLoopCheckingFirst(_, _, _, _, _, _)
PlaceLoopCheckingFirst(m, populations, i, zs, id, prm) ==
  IF \E j \in i..Len(populations) : populations[j].loc \notin DOMAIN m
    THEN [raised |-> "ValueError", msg |-> "outside", map |-> m, nextId |-> id]
  ELSE IF i > Len(populations)
    THEN [raised |-> "none", msg |-> "", map |-> m, nextId |-> id]
  ELSE LET loc == populations[i].loc
           r == AddPopulation(m[loc], populations[i].pop,
                              [j \in 1..Len(populations[i].pop) |-> ZAt(zs, i, j)],
                              id, prm)
           m1 == [m EXCEPT ![loc] = r.cell]
       IN IF r.raised # "none"
            THEN [raised |-> r.raised, msg |-> r.msg, map |-> m1, nextId |-> r.nextId]
            ELSE PlaceLoopCheckingFirst(m1, populations, i + 1, zs, r.nextId, prm)

(* the for loop of place_population from the i-th entry on *)
RECURSIVE PlaceLoop(_, _, _, _, _, _)
PlaceLoop(m, populations, i, zs, id, prm) ==
  IF i > Len(populations) THEN [raised |-> "none", msg |-> "", map |-> m, nextId |-> id]
  ELSE LET loc == populations[i].loc IN
    IF loc \in DOMAIN m
      THEN LET r == AddPopulation(m[loc], populations[i].pop,
                                  [j \in 1..Len(populations[i].pop) |-> ZAt(zs, i, j)],
                                  id, prm)
               m1 == [m EXCEPT ![loc] = r.cell]
           IN IF r.raised # "none"
                THEN [raised |-> r.raised, msg |-> r.msg, map |-> m1, nextId |-> r.nextId]
                ELSE PlaceLoop(m1, populations, i + 1, zs, r.nextId, prm)
      ELSE [raised |-> "ValueError", msg |-> "outside", map |-> m, nextId |-> id]

(* neighbours of island_migration: north, south, east, west *)
NeighbourLocs(loc) ==
  <<<<loc[1] - 1, loc[2]>>, <<loc[1] + 1, loc[2]>>,
    <<loc[1], loc[2] + 1>>, <<loc[1], loc[2] - 1>>>>

(* a faulty routing: the cell's staging lists are added to its population  *)
(* as soon as its own emigrants are routed                                 *)
RECURSIVE RouteLoopCommitting(_, _, _, _, _)
RouteLoopCommitting(m, loc, migrators, i, choice) ==
  IF i > Len(migrators) THEN [m EXCEPT ![loc] = AddMigratersToPop(@)]
  ELSE LET a == migrators[i]
           to == NeighbourLocs(loc)[choice[a.id]]
       IN IF m[to].classname = "Water"
            THEN RouteLoopCommitting(
                   IF a.species = "Herbivore"
                     THEN [m EXCEPT ![loc].migrating_herbs = Append(@, a)]
                     ELSE [m EXCEPT ![loc].migrating_carns = Append(@, a)],
                   loc, migrators, i + 1, choice)
            ELSE RouteLoopCommitting([m EXCEPT ![to] = RegisterMigrants(@, a)],
                                     loc, migrators, i + 1, choice)

(* a faulty routing: an emigrant is registered with the neighbour it chose, *)
(* Water or not                                                            *)
RECURSIVE RouteLoopIntoWater(_, _, _, _, _)
RouteLoopIntoWater(m, loc, migrators, i, choice) ==
  IF i > Len(migrators) THEN m
  ELSE LET a == migrators[i]
           to == NeighbourLocs(loc)[choice[a.id]]
       IN RouteLoopIntoWater([m EXCEPT ![to] = RegisterMigrants(@, a)],
                             loc, migrators, i + 1, choice)

(* the two routing loops of island_migration for the emigrants of the cell *)
(* at loc; choice[id] is the neighbour random.choice picked                *)
RECURSIVE RouteLoop(_, _, _, _, _)
RouteLoop(m, loc, migrators, i, choice) ==
  IF i > Len(migrators) THEN m
  ELSE LET a == migrators[i]
           to == NeighbourLocs(loc)[choice[a.id]]
       IN IF m[to].classname = "Water"
            THEN RouteLoop(
                   IF a.species = "Herbivore"
                     THEN [m EXCEPT ![loc].migrating_herbs = Append(@, a)]
                     ELSE [m EXCEPT ![loc].migrating_carns = Append(@, a)],
                   loc, migrators, i + 1, choice)
            ELSE RouteLoop([m EXCEPT ![to] = RegisterMigrants(@, a)],
                           loc, migrators, i + 1, choice)

(* one more hop for every emigrant that RouteLoop hands to another cell *)
HopsAfter(m, loc, migrators, choice, h) ==
  [id \in DOMAIN h |->
     IF \E i \in 1..Len(migrators) :
          migrators[i].id = id /\ m[NeighbourLocs(loc)[choice[id]]].classname # "Water"
       THEN h[id] + 1 ELSE h[id]]

IdsOf(pop) == {pop[i].id : i \in 1..Len(pop)}
LiveIds(cell) == IdsOf(cell.herb_pop) \cup IdsOf(cell.carn_pop)

(* the next cell after position k that the loops of island_migration do    *)
(* not skip (if cell.classname == 'Water': continue), or NCells + 1        *)
NextLand(k) ==
  LET later == {j \in (k + 1)..NCells : map[keys[j]].classname # "Water"}
  IN IF later = {} THEN NCells + 1
     ELSE CHOOSE j \in later : \A i \in later : j <= i

----------------------------------------------------------------------------
(* Inputs *)

W == "W"
L == "L"
H == "H"
D == "D"
NL == <<"\n">>

(* the island of the tests and one with two habitable cells side by side *)
OneCellGeography ==
  <<W, W, W>> \o NL \o <<W, L, W>> \o NL \o <<W, W, W>>

TwoCellGeography ==
  <<W, W, W, W>> \o NL \o <<W, L, H, W>> \o NL \o <<W, W, W, W>>

(* an island with a cell whose four neighbours are all habitable *)
CrossGeography ==
  <<W, W, W, W, W>> \o NL \o <<W, W, D, W, W>> \o NL \o <<W, L, L, H, W>>
    \o NL \o <<W, W, L, W, W>> \o NL \o <<W, W, W, W, W>>

RecH == [species |-> "Herbivore", age |-> Some(5), weight |-> Some(40 * Scale)]
RecC == [species |-> "Carnivore", age |-> Some(5), weight |-> Some(20 * Scale)]

(* lists of at most two records *)
PopsOf(recs) == {<<>>} \cup {<<r>> : r \in recs} \cup {<<r, q>> : r, q \in recs}

HabitableLocs == {loc \in DOMAIN map : map[loc].habitability}

(* every habitable cell, a Water cell, and a place outside the map *)
PlaceLocs == HabitableLocs \cup {<<1, 1>>, <<0, 0>>}

RECURSIVE NumRecords(_)
NumRecords(populations) ==
  IF populations = <<>> THEN 0
  ELSE Len(Head(populations).pop) + NumRecords(Tail(populations))

(* standard deviations from the mean that random.gauss may return *)
GaussZ == {-6, 0, 2}

(* the constructor calls of the call whose weight is drawn *)
NeedDraw(populations) ==
  {ij \in (1..Len(populations)) \X (1..2) :
     /\ ij[2] <= Len(populations[ij[1]].pop)
     /\ "weight" \in DOMAIN populations[ij[1]].pop[ij[2]]
     /\ populations[ij[1]].pop[ij[2]].weight = None}

(* the update of test_island_migration_happens_once, and one with an       *)
(* unknown name behind it                                                  *)
ParameterUpdates ==
  { [species |-> "Herbivore", new_params |-> << <<"mu", 1500>> >>],
    [species |-> "Herbivore", new_params |-> << <<"mu", 1500>>, <<"nu", 1>> >>] }

(* the orders random.shuffle can leave a list of n elements in *)
Shuffles(n) == {f \in [1..n -> 1..n] : \A i, j \in 1..n : f[i] = f[j] => i = j}

(* per parent: no birth drawn, or a birth drawn with the newborn's weight draw *)
BirthDraws == {<<FALSE, 0>>} \cup {<<TRUE, z>> : z \in GaussZ}

----------------------------------------------------------------------------
(* The calls *)

InitOn(geographies) ==
  /\ geogr \in geographies
  /\ built = "yes"
  /\ map = createmap(geogr, LandscapeParameters).map
  /\ keys = KeysOf(geogr)
  /\ params = [Herbivore |-> HerbivoreParameters, Carnivore |-> CarnivoreParameters]
  /\ lparams = LandscapeParameters
  /\ pc = "idle"
  /\ idx = 0
  /\ lastOp = "Island"
  /\ arg = <<>>
  /\ raised = "none"
  /\ msg = ""
  /\ nextId = 1
  /\ work = 0
  /\ before = map
  /\ phase = [loc \in DOMAIN map |-> "none"]
  /\ hops = <<>>
  /\ accepted = TRUE
  /\ step = 0
  /\ seed = 0 /\ rng = 0 /\ twin = <<>>
  /\ loop = <<>>

Init == InitOn({OneCellGeography, TwoCellGeography})

InitMig == InitOn({CrossGeography})

NoPhase == [loc \in DOMAIN map |-> "none"]

(* Island.place_population(populations) *)
PlacePopulation(populations, zs) ==
  /\ pc = "idle" /\ built = "yes"
  /\ work + NumRecords(populations) <= MaxWork
  /\ LET r == PlaceLoop(map, populations, 1, zs, nextId, params)
     IN /\ map' = r.map
        /\ raised' = r.raised
        /\ msg' = r.msg
        /\ nextId' = r.nextId
  /\ before' = map
  /\ lastOp' = "place_population"
  /\ arg' = populations
  /\ work' = work + NumRecords(populations)
  /\ phase' = NoPhase
  /\ accepted' = (accepted /\ raised' = "none")
  /\ UNCHANGED <<geogr, built, keys, params, lparams, pc, idx, hops, step, Others>>

(* Island.set_animal_parameters_island(species, params) *)
SetAnimalParameters(u) ==
  /\ pc = "idle" /\ built = "yes"
  /\ work < MaxWork
  /\ LET r == SetParameters(params[u.species], u.new_params)
     IN /\ params' = [params EXCEPT ![u.species] = r.parameters]
        /\ raised' = r.raised
        /\ msg' = r.msg
  /\ before' = map
  /\ lastOp' = "set_animal_parameters_island"
  /\ arg' = u
  /\ work' = work + 1
  /\ phase' = NoPhase
  /\ accepted' = (accepted /\ raised' = "none")
  /\ UNCHANGED <<geogr, built, map, keys, lparams, pc, idx, nextId, hops, step, Others>>

(* Island.set_landscape_parameters_island(landscape, params): the class of *)
(* the sample cell Island.parameters holds for the letter                   *)
SetLandscapeParameters(u) ==
  /\ pc = "idle" /\ built = "yes"
  /\ work < MaxWork
  /\ LET r == LandscapeSetParameters(lparams[ClassOf(u.landscape)], u.new_params)
     IN /\ lparams' = [lparams EXCEPT ![ClassOf(u.landscape)] = r.parameters]
        /\ raised' = r.raised
        /\ msg' = r.msg
  /\ before' = map
  /\ lastOp' = "set_landscape_parameters_island"
  /\ arg' = u
  /\ work' = work + 1
  /\ phase' = NoPhase
  /\ accepted' = (accepted /\ raised' = "none")
  /\ UNCHANGED <<geogr, built, map, keys, params, pc, idx, nextId, hops, step, Others>>

Frame ==
  UNCHANGED <<geogr, built, keys, params, lparams, lastOp, arg, work, before, accepted, Others>>

(* island_migration is entered: its first loop starts at the first cell    *)
(* that is not Water                                                       *)
EnterMigration(ids) ==
  /\ IF NextLand(0) > NCells THEN pc' = "migrated" /\ idx' = 0
     ELSE pc' = "stage" /\ idx' = NextLand(0)
  /\ hops' = [id \in ids |-> 0]

(* a call of Island.annual_cycle_island begins *)
AnnualCycleBegin ==
  /\ pc = "idle" /\ built = "yes" /\ work < MaxWork
  /\ IF NCells = 0 THEN EnterMigration(1..(nextId - 1))
     ELSE pc' = "pre" /\ idx' = 1 /\ hops' = hops
  /\ lastOp' = "annual_cycle_island" /\ arg' = <<>>
  /\ raised' = "none" /\ msg' = ""
  /\ before' = map
  /\ work' = work + 1
  /\ phase' = NoPhase
  /\ UNCHANGED <<geogr, built, map, keys, params, lparams, nextId, accepted, step, Others>>

(* a direct call of Island.island_migration begins *)
IslandMigrationBegin ==
  /\ pc = "idle" /\ built = "yes" /\ work < MaxWork
  /\ EnterMigration(1..(nextId - 1))
  /\ lastOp' = "island_migration" /\ arg' = <<>>
  /\ raised' = "none" /\ msg' = ""
  /\ before' = map
  /\ work' = work + 1
  /\ phase' = NoPhase
  /\ UNCHANGED <<geogr, built, map, keys, params, lparams, nextId, accepted, step, Others>>

(* the first loop of annual_cycle_island at the cell at idx:               *)
(* cell.pre_migration_cycle(); after the last cell island_migration is     *)
(* called; an exception leaves annual_cycle_island                         *)
PreMigration ==
  /\ pc = "pre"
  /\ \E order \in Shuffles(Len(map[Here].carn_pop)) :
     \E kills \in [IdsOf(map[Here].carn_pop) \X IdsOf(map[Here].herb_pop) -> BOOLEAN] :
     \E bz \in [LiveIds(map[Here]) -> BirthDraws] :
     \E births \in {[id \in DOMAIN bz |-> bz[id][1]]} :
     \E zs \in {[id \in DOMAIN bz |-> bz[id][2]]} :
     \E r \in {PreMigrationCycle(map[Here], order, kills, births, zs,
                                  nextId, lparams, params)} :
          /\ map' = [map EXCEPT ![Here] = r.cell]
          /\ nextId' = r.nextId
          /\ raised' = r.raised
          /\ msg' = r.msg
          /\ IF r.raised # "none"
               THEN pc' = "idle" /\ idx' = 0 /\ hops' = hops /\ phase' = phase
             ELSE /\ phase' = [phase EXCEPT ![Here] = "pre"]
                  /\ IF idx < NCells THEN pc' = "pre" /\ idx' = idx + 1 /\ hops' = hops
                     ELSE EnterMigration(1..(r.nextId - 1))
  /\ UNCHANGED step /\ Frame

(* the first loop of island_migration at the cell at idx: the neighbour    *)
(* lookup, animal_migration, and the routing of its emigrants              *)
Stage ==
  /\ pc = "stage"
  /\ IF \E k \in 1..4 : NeighbourLocs(Here)[k] \notin DOMAIN map
       THEN /\ pc' = "idle" /\ idx' = 0
            /\ raised' = "KeyError" /\ msg' = "neighbour"
            /\ UNCHANGED <<map, hops, phase>>
       ELSE /\ \E moves \in [LiveIds(map[Here]) -> BOOLEAN] :
                 LET mig == AnimalMigration(map[Here], moves, params)
                     movers == mig.migrators_herb \o mig.migrators_carn
                 IN \E choice \in [IdsOf(movers) -> 1..4] :
                      /\ map' = RouteLoop([map EXCEPT ![Here] = mig.cell], Here,
                                          movers, 1, choice)
                      /\ hops' = HopsAfter(map, Here, movers, choice, hops)
            /\ phase' = [phase EXCEPT ![Here] = "stage"]
            /\ IF NextLand(idx) <= NCells THEN pc' = "stage" /\ idx' = NextLand(idx)
               ELSE pc' = "commit" /\ idx' = NextLand(0)
            /\ UNCHANGED <<raised, msg>>
  /\ UNCHANGED <<nextId, step>> /\ Frame

(* the second loop of island_migration at the cell at idx *)
Commit ==
  /\ pc = "commit"
  /\ map' = [map EXCEPT ![Here] = AddMigratersToPop(@)]
  /\ phase' = [phase EXCEPT ![Here] = "commit"]
  /\ IF NextLand(idx) <= NCells THEN pc' = "commit" /\ idx' = NextLand(idx)
     ELSE pc' = "migrated" /\ idx' = 0
  /\ UNCHANGED <<raised, msg, nextId, hops, step>> /\ Frame

(* island_migration returns: to its caller, or into annual_cycle_island,   *)
(* which starts its second loop                                            *)
MigrationReturn ==
  /\ pc = "migrated"
  /\ IF lastOp = "island_migration" \/ NCells = 0 THEN pc' = "idle" /\ idx' = 0
     ELSE pc' = "post" /\ idx' = 1
  /\ step' = IF lastOp = "annual_cycle_island" /\ NCells = 0 THEN step + 1 ELSE step
  /\ hops' = <<>>
  /\ UNCHANGED <<map, raised, msg, nextId, phase>> /\ Frame

(* the second loop of annual_cycle_island at the cell at idx:              *)
(* cell.post_migration_cycle(); after the last cell the method returns     *)
PostMigration ==
  /\ pc = "post"
  /\ \E deaths \in [LiveIds(map[Here]) -> BOOLEAN] :
       map' = [map EXCEPT ![Here] = PostMigrationCycle(@, deaths, params)]
  /\ phase' = [phase EXCEPT ![Here] = "post"]
  /\ IF idx < NCells THEN pc' = "post" /\ idx' = idx + 1 /\ step' = step
     ELSE pc' = "idle" /\ idx' = 0 /\ step' = step + 1
  /\ UNCHANGED <<raised, msg, nextId, hops>> /\ Frame

(* one entry of at most two herbivores and carnivores *)
PlaceSome ==
  \E l \in PlaceLocs : \E q \in PopsOf({RecH, RecC}) :
    PlacePopulation(<<[loc |-> l, pop |-> q]>>, <<>>)

SetSome == \E u \in ParameterUpdates : SetAnimalParameters(u)

Next ==
  \/ PlaceSome
  \/ SetSome
  \/ AnnualCycleBegin
  \/ IslandMigrationBegin
  \/ PreMigration
  \/ Stage
  \/ Commit
  \/ MigrationReturn
  \/ PostMigration

Spec == Init /\ [][Next]_vars

(* placement and direct calls of island_migration on the cross island *)
NextMig ==
  \/ PlaceSome
  \/ SetSome
  \/ IslandMigrationBegin
  \/ Stage
  \/ Commit
  \/ MigrationReturn

SpecMig == InitMig /\ [][NextMig]_vars

----------------------------------------------------------------------------
(* island.py: the population counts *)

RECURSIVE CountLoop(_, _, _)
CountLoop(m, field, k) ==
  IF k > NCells THEN 0 ELSE Len(m[keys[k]][field]) + CountLoop(m, field, k + 1)

(* Island.get_number_of_herbs(): the sum of len(cell.herb_pop) over the map *)
GetNumberOfHerbs(m) == CountLoop(m, "herb_pop", 1)

(* Island.get_number_of_carns(): the sum of len(cell.carn_pop) over the map *)
GetNumberOfCarns(m) == CountLoop(m, "carn_pop", 1)

----------------------------------------------------------------------------
(* Vocabulary of the properties *)

Lists == {"herb_pop", "carn_pop", "migrating_herbs", "migrating_carns"}
LiveLists == {"herb_pop", "carn_pop"}
StagingLists == {"migrating_herbs", "migrating_carns"}

(* the places an animal can be held at: a cell, one of its lists, an index *)
Slots(m) ==
  UNION {{<<loc, f, i>> : i \in 1..Len(m[loc][f])} : <<loc, f>> \in (DOMAIN m) \X Lists}

Held(m, s) == m[s[1]][s[2]][s[3]]

(* the places of m that hold the animal id *)
SlotsOf(m, id) == {s \in Slots(m) : Held(m, s).id = id}

AllIds(m) == {Held(m, s).id : s \in Slots(m)}

(* the cell of m that holds id in one of its lists fs *)
CellsOf(m, id, fs) == {s[1] : s \in {t \in SlotsOf(m, id) : t[2] \in fs}}

InMigration == pc \in {"stage", "commit", "migrated"}

LandLocs == {loc \in DOMAIN map : map[loc].classname # "Water"}

FourHabitable(loc) ==
  \A k \in 1..4 : NeighbourLocs(loc)[k] \in DOMAIN map
                    /\ map[NeighbourLocs(loc)[k]].habitability

----------------------------------------------------------------------------
(* Properties of island_migration *)

(* C1: when a call of island_migration has run its two loops, the island   *)
(* holds as many herbivores and as many carnivores as when it was called,  *)
(* and the same animals: none was created, none was lost, whatever was     *)
(* drawn.                                                                  *)
C1_MigrationPreservesCounts ==
  (pc = "migrated" /\ lastOp = "island_migration") =>
    /\ GetNumberOfHerbs(map) = GetNumberOfHerbs(before)
    /\ GetNumberOfCarns(map) = GetNumberOfCarns(before)
    /\ \A id \in AllIds(before) : CellsOf(map, id, LiveLists) # {}
    /\ \A id \in AllIds(map) : CellsOf(before, id, LiveLists) # {}

(* a pass over an island with both species in which an animal moved *)
C1_Witness ==
  /\ pc = "migrated" /\ lastOp = "island_migration"
  /\ GetNumberOfHerbs(before) >= 1 /\ GetNumberOfCarns(before) >= 1
  /\ \E id \in AllIds(before) : CellsOf(map, id, LiveLists) # CellsOf(before, id, LiveLists)

(* C3: in one pass of island_migration an animal is handed to another cell *)
(* at most once; an animal that has arrived in a cell is in no live list   *)
(* while the first loop runs, so it is not drawn again; after the pass it  *)
(* is in its origin cell or in one of the origin's four neighbours; and a  *)
(* single animal with mu * fitness >= 1 in a cell with four habitable      *)
(* neighbours is afterwards in exactly one of them.                        *)
C3_AtMostOneHop ==
  /\ InMigration => \A id \in DOMAIN hops : hops[id] <= 1
  /\ pc = "stage" =>
       \A id \in DOMAIN hops : hops[id] >= 1 => CellsOf(map, id, LiveLists) = {}
  /\ (pc = "migrated" /\ lastOp = "island_migration") =>
       \A id \in AllIds(before) :
         \E origin \in CellsOf(before, id, LiveLists) :
         \E now \in {origin} \cup {NeighbourLocs(origin)[k] : k \in 1..4} :
           /\ CellsOf(map, id, Lists) = {now}
           /\ Cardinality(SlotsOf(map, id)) = 1
           /\ (now # origin) <=> (hops[id] = 1)
  /\ (pc = "migrated" /\ lastOp = "island_migration") =>
       \A s \in Slots(before) :
         LET a == Held(before, s) IN
           (/\ Slots(before) = {s}
            /\ FourHabitable(s[1])
            /\ FixMul(params[a.species].mu, a.fitness) >= Scale)
           => \E k \in 1..4 : /\ CellsOf(map, a.id, LiveLists) = {NeighbourLocs(s[1])[k]}
                              /\ Cardinality(SlotsOf(map, a.id)) = 1

(* the single certain migrant has left a cell with four habitable neighbours *)
C3_Witness ==
  /\ pc = "migrated" /\ lastOp = "island_migration"
  /\ \E s \in Slots(before) :
       /\ Slots(before) = {s}
       /\ FourHabitable(s[1])
       /\ FixMul(params[Held(before, s).species].mu, Held(before, s).fitness) >= Scale
       /\ CellsOf(map, Held(before, s).id, LiveLists) # {s[1]}

(* C4: while any cell's staging step of island_migration is still to run,  *)
(* no cell has run add_migraters_to_pop: the live lists hold no newcomer;  *)
(* and when add_migraters_to_pop runs, every cell that is not Water has    *)
(* been staged.                                                            *)
C4_StageBeforeCommit ==
  /\ pc = "stage" =>
       /\ \A loc \in DOMAIN map : phase[loc] # "commit"
       /\ \A loc \in DOMAIN map : LiveIds(map[loc]) \subseteq LiveIds(before[loc])
  /\ pc = "commit" => \A loc \in LandLocs : phase[loc] \in {"stage", "commit"}

(* one cell has been committed, another still holds staged newcomers *)
C4_Witness ==
  /\ pc = "commit"
  /\ \E loc \in LandLocs : phase[loc] = "commit"
  /\ \E loc \in LandLocs :
       /\ phase[loc] = "stage"
       /\ \E id \in IdsOf(map[loc].migrating_herbs \o map[loc].migrating_carns) :
            id \notin LiveIds(before[loc])

----------------------------------------------------------------------------
(* Properties of the island's state *)

(* C2: no animal is held twice, neither by two cells nor by two lists or   *)
(* two indices of one cell; and while a call of island_migration runs,     *)
(* every animal that was on the island when it was called is held exactly  *)
(* once, by a live list or by a staging list.                              *)
C2_ExclusiveOwnership ==
  /\ \A s, t \in Slots(map) : Held(map, s).id = Held(map, t).id => s = t
  /\ (InMigration /\ lastOp = "island_migration") =>
       \A id \in AllIds(before) : Cardinality(SlotsOf(map, id)) = 1

(* an emigrant waits in the staging list of a cell it did not start in,    *)
(* next to an animal in a live list                                        *)
C2_Witness ==
  /\ pc = "stage" /\ lastOp = "island_migration"
  /\ \E s, t \in Slots(map) :
       /\ s[2] \in StagingLists
       /\ s[1] \notin CellsOf(before, Held(map, s).id, Lists)
       /\ t[2] \in LiveLists

(* the age an animal of the island had when the running call began; a     *)
(* newborn of the call has age 0                                           *)
AgeBefore(id) ==
  IF id \in AllIds(before)
    THEN Held(before, CHOOSE s \in Slots(before) : Held(before, s).id = id).age
    ELSE 0

(* C5: annual_cycle_island has three stages. While the first loop runs no  *)
(* cell has been staged; a cell that has finished pre_migration_cycle has  *)
(* the fodder that regrowth followed by feeding leaves. island_migration   *)
(* starts when every cell has finished pre_migration_cycle. The second     *)
(* loop starts when every cell that is not Water has been committed and    *)
(* the staging lists are empty; only post_migration_cycle ages an animal.  *)
(* When the call has returned without an exception every cell has run      *)
(* post_migration_cycle and the island is idle.                            *)
C5_ThreeStages ==
  lastOp = "annual_cycle_island" =>
    /\ pc = "pre" =>
         \A k \in 1..NCells :
           /\ phase[keys[k]] = IF k < idx THEN "pre" ELSE "none"
           /\ k < idx =>
                map[keys[k]].fodder =
                  Max(0, lparams[map[keys[k]].classname].f_max
                           - params.Herbivore.F * Len(before[keys[k]].herb_pop))
    /\ InMigration =>
         \A loc \in DOMAIN map : phase[loc] \in {"pre", "stage", "commit"}
    /\ pc = "post" =>
         /\ \A k \in 1..NCells :
              IF k < idx THEN phase[keys[k]] = "post"
              ELSE phase[keys[k]] = IF keys[k] \in LandLocs THEN "commit" ELSE "pre"
         /\ \A s \in Slots(map) : s[2] \in LiveLists
    /\ \A s \in Slots(map) :
         Held(map, s).age = AgeBefore(Held(map, s).id)
                              + (IF phase[s[1]] = "post" THEN 1 ELSE 0)
    /\ (pc = "idle" /\ raised = "none") => \A loc \in DOMAIN map : phase[loc] = "post"

(* the second loop has reached a cell that holds an animal which came over *)
(* from another cell in this cycle                                         *)
C5_Witness ==
  /\ lastOp = "annual_cycle_island" /\ pc = "post"
  /\ \E s \in Slots(map) :
       /\ phase[s[1]] = "post"
       /\ Held(map, s).id \in AllIds(before)
       /\ s[1] \notin CellsOf(before, Held(map, s).id, Lists)

(* C6: a Water cell holds no animal, in its live lists or in its staging   *)
(* lists, after construction, after a placement that was accepted or       *)
(* refused, and at every step of island_migration and annual_cycle_island. *)
C6_WaterHoldsNoAnimal ==
  \A loc \in DOMAIN map :
    map[loc].classname = "Water" =>
      /\ map[loc].herb_pop = <<>> /\ map[loc].carn_pop = <<>>
      /\ map[loc].migrating_herbs = <<>> /\ map[loc].migrating_carns = <<>>

(* a placement on Water has been refused on an island that holds animals *)
C6_Witness ==
  /\ lastOp = "place_population" /\ raised = "ValueError" /\ msg = "water"
  /\ AllIds(map) # {}
  /\ \E i \in 1..Len(arg) : Len(arg[i].pop) > 0

----------------------------------------------------------------------------
(* Construction of an island from a geography text *)

(* the text of rows lines of cols times the letter W *)
GridText(rows, cols) ==
  [k \in 1..(rows * (cols + 1) - 1) |-> IF k % (cols + 1) = 0 THEN "\n" ELSE W]

(* what a character of the text is overwritten with: the land letters, a   *)
(* blank, a letter that is no terrain, a line break                        *)
EditChars == {L, H, D, " ", "d", "\n"}

(* the texts that differ from one of texts in at most n characters *)
RECURSIVE Edited(_, _)
Edited(texts, n) ==
  IF n = 0 THEN texts
  ELSE Edited(texts \cup {[t EXCEPT ![p] = c] :
                            <<t, p, c>> \in {x \in texts \X (1..(MaxRows * (MaxCols + 1))) \X EditChars :
                                               x[2] <= Len(x[1])}},
              n - 1)

GeographyTexts ==
  Edited({GridText(rows, cols) : rows \in 1..MaxRows, cols \in 0..MaxCols}, MaxEdits)

InitMap ==
  /\ geogr \in GeographyTexts
  /\ built = "no"
  /\ map = << >>
  /\ keys = << >>
  /\ params = [Herbivore |-> HerbivoreParameters, Carnivore |-> CarnivoreParameters]
  /\ lparams = LandscapeParameters
  /\ pc = "idle"
  /\ idx = 0
  /\ lastOp = "none"
  /\ arg = << >>
  /\ raised = "none"
  /\ msg = ""
  /\ nextId = 1
  /\ work = 0
  /\ before = << >>
  /\ phase = << >>
  /\ hops = << >>
  /\ accepted = TRUE
  /\ step = 0
  /\ seed = 0 /\ rng = 0 /\ twin = <<>>
  /\ loop = <<>>

(* Island(geogr): __init__ calls createmap; an exception leaves no island *)
Construct ==
  /\ built = "no"
  /\ \E r \in {createmap(geogr, lparams)} :
       /\ built' = IF r.raised = "none" THEN "yes" ELSE "failed"
       /\ map' = r.map
       /\ keys' = IF r.raised = "none" THEN KeysOf(geogr) ELSE << >>
       /\ raised' = r.raised
       /\ msg' = r.msg
       /\ before' = r.map
       /\ phase' = [loc \in DOMAIN r.map |-> "none"]
  /\ lastOp' = "Island"
  /\ arg' = geogr
  /\ accepted' = (accepted /\ raised' = "none")
  /\ UNCHANGED <<geogr, params, lparams, pc, idx, nextId, work, hops, step, Others>>

NextMap == Construct

SpecMap == InitMap /\ [][NextMap]_vars

(* the terrain each letter stands for *)
TerrainOf == [W |-> "Water", L |-> "Lowland", H |-> "Highland", D |-> "Desert"]

(* C7: constructing an island succeeds exactly when the rows of the text   *)
(* have one length, every character of the first and last row and of the   *)
(* first and last column is W, and every character is W, L, H or D. In any *)
(* other case ValueError is raised and there is no map. On success the map *)
(* has one cell for each (row, column) counted from 1, of the terrain of   *)
(* the letter there, with full fodder and no animals.                      *)
C7_ConstructionValidates ==
  built # "no" =>
    LET rows == Split(geogr)
        Rectangular == \A i, j \in 1..Len(rows) : Len(rows[i]) = Len(rows[j])
        Cells == UNION {{<<r, c>> : c \in 1..Len(rows[r])} : r \in 1..Len(rows)}
        OnBorder(rc) == rc[1] \in {1, Len(rows)} \/ rc[2] \in {1, Len(rows[rc[1]])}
        WaterBorder == \A rc \in Cells : OnBorder(rc) => rows[rc[1]][rc[2]] = "W"
        KnownLetters == \A rc \in Cells : rows[rc[1]][rc[2]] \in {"W", "L", "H", "D"}
    IN /\ (built = "yes") <=> (Rectangular /\ WaterBorder /\ KnownLetters)
       /\ built = "failed" => raised = "ValueError" /\ map = << >>
       /\ built = "yes" =>
            /\ raised = "none"
            /\ DOMAIN map = Cells
            /\ \A rc \in Cells :
                 /\ map[rc].classname = TerrainOf[rows[rc[1]][rc[2]]]
                 /\ map[rc].fodder = lparams[map[rc].classname].f_max
                 /\ map[rc].habitability = (rows[rc[1]][rc[2]] # "W")
                 /\ \A f \in Lists : map[rc][f] = << >>

(* an island with land inside its water border has been constructed *)
C7_Witness ==
  /\ built = "yes"
  /\ \E loc \in DOMAIN map : map[loc].classname = "Highland"
  /\ \E loc \in DOMAIN map : map[loc].classname = "Lowland"

----------------------------------------------------------------------------
(* Calls of place_population with records of every kind *)

(* a record with a species tag that is no species *)
RecDog == [species |-> "Dog", age |-> Some(5), weight |-> Some(20 * Scale)]

(* a record whose weight is None: the constructor draws it *)
RecDrawn == [species |-> "Herbivore", age |-> Some(5), weight |-> None]

(* a record that leaves age and weight out *)
RecBare == [species |-> "Herbivore"]

EntriesOf(locs, pops) == {[loc |-> l, pop |-> q] : l \in locs, q \in pops}

(* one entry of at most two records of any kind *)
PlaceOneEntry ==
  /\ work < MaxWork
  /\ \E e \in EntriesOf(PlaceLocs, PopsOf({RecH, RecC, RecDog, RecDrawn, RecBare})) :
     \E zs \in [NeedDraw(<<e>>) -> GaussZ] :
       PlacePopulation(<<e>>, zs)

(* two entries of at most one record each *)
PlaceTwoEntries ==
  /\ work < MaxWork
  /\ \E e, f \in EntriesOf(PlaceLocs, {<<>>, <<RecH>>, <<RecDog>>}) :
       PlacePopulation(<<e, f>>, <<>>)

InitPlace == InitOn({TwoCellGeography})

NextPlace ==
  \/ PlaceOneEntry
  \/ PlaceTwoEntries

SpecPlace == InitPlace /\ [][NextPlace]_vars

(* Vocabulary of the placement properties *)

OnWater(loc) == loc \in DOMAIN map /\ map[loc].classname = "Water"

(* a record of a species with an age and a weight that are given and not   *)
(* negative                                                                *)
GivenInFull(r) ==
  /\ r.species \in Species
  /\ {"age", "weight"} \subseteq DOMAIN r
  /\ r.age # None /\ Get(r.age) >= 0
  /\ r.weight # None /\ Get(r.weight) >= 0

(* a record as the input format allows it: a species, and an age and a     *)
(* weight that are left out, left to the default, or not negative          *)
WellFormed(r) ==
  /\ r.species \in Species
  /\ "age" \notin DOMAIN r \/ r.age = None \/ Get(r.age) >= 0
  /\ "weight" \notin DOMAIN r \/ r.weight = None \/ Get(r.weight) >= 0

(* an entry that place_population adds in full *)
Accepted(e) ==
  /\ e.loc \in HabitableLocs
  /\ \A k \in 1..Len(e.pop) : GivenInFull(e.pop[k])

(* the list of a cell that holds the animals of a species *)
ListOf(sp) == IF sp = "Herbivore" THEN "herb_pop" ELSE "carn_pop"

(* C8: a call of place_population that reaches an entry whose location is  *)
(* a Water cell raises ValueError, whether the entry's list of records is  *)
(* empty or not, and the Water cell is left as it was.                     *)
C8_WaterPlacementRefused ==
  lastOp = "place_population" =>
    \A i \in 1..Len(arg) :
      (OnWater(arg[i].loc) /\ \A j \in 1..(i - 1) : Accepted(arg[j]))
        => /\ raised = "ValueError"
           /\ map[arg[i].loc] = before[arg[i].loc]
           /\ \A f \in Lists : map[arg[i].loc][f] = << >>

(* an empty list of records has been refused by a Water cell *)
C8_Witness ==
  /\ lastOp = "place_population"
  /\ Len(arg) = 1 /\ OnWater(arg[1].loc) /\ arg[1].pop = << >>
  /\ raised = "ValueError"

(* C9: a call of place_population with one entry of k well-formed records  *)
(* of one species at a habitable location raises nothing, lengthens that   *)
(* cell's list of that species by k, and leaves the cell's other list and  *)
(* every other cell as they were.                                          *)
C9_HabitablePlacementSucceeds ==
  (/\ lastOp = "place_population"
   /\ Len(arg) = 1
   /\ arg[1].loc \in HabitableLocs
   /\ \A k \in 1..Len(arg[1].pop) : WellFormed(arg[1].pop[k]))
  => \A sp \in Species :
       (\A k \in 1..Len(arg[1].pop) : arg[1].pop[k].species = sp)
         => /\ raised = "none"
            /\ Len(map[arg[1].loc][ListOf(sp)])
                 = Len(before[arg[1].loc][ListOf(sp)]) + Len(arg[1].pop)
            /\ \A other \in Species \ {sp} :
                 map[arg[1].loc][ListOf(other)] = before[arg[1].loc][ListOf(other)]
            /\ \A loc \in DOMAIN map \ {arg[1].loc} : map[loc] = before[loc]

(* the records of the call all have their age and weight given *)
GivenCall == \A i \in 1..Len(arg) : \A k \in 1..Len(arg[i].pop) :
               /\ {"age", "weight"} \subseteq DOMAIN arg[i].pop[k]
               /\ arg[i].pop[k].age # None /\ arg[i].pop[k].weight # None

(* the entry is outside the map, on Water, or has a record of no species *)
FailsAt(i) ==
  \/ arg[i].loc \notin DOMAIN map
  \/ OnWater(arg[i].loc)
  \/ \E k \in 1..Len(arg[i].pop) : arg[i].pop[k].species \notin Species

FirstFailing ==
  CHOOSE i \in 1..Len(arg) : FailsAt(i) /\ \A j \in 1..(i - 1) : ~FailsAt(j)

(* the records of species sp for loc that come before the failure: those   *)
(* of the entries before the failing one, and in the failing entry, if its *)
(* cell is habitable, those before the record of no species                *)
PlacedBeforeFailure(loc, sp) ==
  Cardinality(
    {jk \in (1..Len(arg)) \X (1..MaxWork) :
       /\ jk[2] <= Len(arg[jk[1]].pop)
       /\ arg[jk[1]].loc = loc
       /\ arg[jk[1]].pop[jk[2]].species = sp
       /\ \/ jk[1] < FirstFailing
          \/ /\ jk[1] = FirstFailing
             /\ loc \in HabitableLocs
             /\ \A k \in 1..jk[2] : arg[jk[1]].pop[k].species \in Species})

(* C10 as stated: after a call of place_population that failed for a       *)
(* location outside the map, a location on Water or an unknown species,    *)
(* every cell is as it was before the call.                                *)
C10_RejectedAsAWhole ==
  (lastOp = "place_population" /\ msg \in {"outside", "water", "species"})
    => \A loc \in DOMAIN map : map[loc] = before[loc]

(* C10, amended: a call of place_population that fails stops at the entry  *)
(* or record that fails. What was on the island stays; the records before  *)
(* the failure stay placed, at the end of their cell's list; no record     *)
(* after the failure is placed.                                            *)
C10_FailureKeepsEarlierRecords ==
  (lastOp = "place_population" /\ raised # "none" /\ GivenCall) =>
    \A loc \in DOMAIN map :
      /\ \A sp \in Species :
           /\ Len(map[loc][ListOf(sp)])
                = Len(before[loc][ListOf(sp)]) + PlacedBeforeFailure(loc, sp)
           /\ SubSeq(map[loc][ListOf(sp)], 1, Len(before[loc][ListOf(sp)]))
                = before[loc][ListOf(sp)]
      /\ \A f \in StagingLists : map[loc][f] = before[loc][f]

(* a call has failed at its second entry and its first entry stays placed *)
C10_Witness ==
  /\ lastOp = "place_population" /\ raised = "ValueError" /\ msg = "outside"
  /\ Len(arg) = 2
  /\ \E loc \in HabitableLocs : Len(map[loc].herb_pop) > Len(before[loc].herb_pop)

(* C11: a call of place_population whose first entry puts herbivores on a  *)
(* habitable cell and whose second entry names a location outside the map  *)
(* raises ValueError, and the herbivores of the first entry are in their   *)
(* cell afterwards.                                                        *)
C11_FirstEntryStaysPlaced ==
  (/\ lastOp = "place_population"
   /\ Len(arg) = 2
   /\ Accepted(arg[1])
   /\ \A k \in 1..Len(arg[1].pop) : arg[1].pop[k].species = "Herbivore"
   /\ arg[2].loc \notin DOMAIN map)
  => /\ raised = "ValueError"
     /\ Len(map[arg[1].loc].herb_pop)
          = Len(before[arg[1].loc].herb_pop) + Len(arg[1].pop)
     /\ \A k \in 1..Len(arg[1].pop) :
          LET a == map[arg[1].loc].herb_pop[Len(before[arg[1].loc].herb_pop) + k]
          IN /\ a.age = Get(arg[1].pop[k].age)
             /\ a.weight = Get(arg[1].pop[k].weight)

(* on an island without animals the first entry's herbivore is the only    *)
(* animal after the call has raised for its second entry                   *)
C11_Witness ==
  /\ lastOp = "place_population" /\ raised = "ValueError"
  /\ Len(arg) = 2 /\ arg[2].loc \notin DOMAIN map
  /\ arg[1].loc \in HabitableLocs /\ Len(arg[1].pop) = 1
  /\ AllIds(before) = {}
  /\ Len(map[arg[1].loc].herb_pop) = 1

(* C12: a call of place_population with one entry on a habitable cell      *)
(* whose only record gives a species and leaves age and weight out is      *)
(* accepted, and adds one animal of age 0 with a weight that is not        *)
(* negative.                                                               *)
C12_SpeciesOnlyRecordAccepted ==
  (/\ lastOp = "place_population"
   /\ Len(arg) = 1
   /\ arg[1].loc \in HabitableLocs
   /\ Len(arg[1].pop) = 1
   /\ DOMAIN arg[1].pop[1] = {"species"}
   /\ arg[1].pop[1].species \in Species)
  => LET sp == arg[1].pop[1].species
         old == before[arg[1].loc][ListOf(sp)]
         new == map[arg[1].loc][ListOf(sp)]
     IN /\ raised = "none"
        /\ Len(new) = Len(old) + 1
        /\ new[Len(new)].age = 0
        /\ new[Len(new)].weight >= 0

----------------------------------------------------------------------------
(* Parameter updates and the years of an island without animals *)

(* an island with a Lowland and a Desert cell *)
DesertGeography ==
  <<W, W, W, W>> \o NL \o <<W, L, D, W>> \o NL \o <<W, W, W, W>>

(* species updates: accepted ones, and ones with an unknown name or a      *)
(* value out of range behind a valid key                                   *)
AnimalUpdates ==
  { [species |-> "Herbivore", new_params |-> << <<"omega", 300>> >>],
    [species |-> "Herbivore", new_params |-> << <<"omega", 300>>, <<"nu", 1>> >>],
    [species |-> "Carnivore", new_params |-> << <<"omega", 300>>, <<"beta", -1>> >>],
    [species |-> "Herbivore", new_params |-> << <<"eta", 0 - 500>> >>],
    [species |-> "Carnivore", new_params |-> << <<"eta", 1500>> >>],
    [species |-> "Herbivore", new_params |-> << <<"DeltaPhiMax", 5000>> >>],
    [species |-> "Carnivore", new_params |-> << <<"DeltaPhiMax", 5000>> >>],
    [species |-> "Carnivore", new_params |-> << <<"F", 20000>>, <<"DeltaPhiMax", 0>> >>] }

(* terrain updates: f_max lowered, raised, given to Desert and Water,      *)
(* negative, and with an unknown name behind it                            *)
LandscapeUpdates ==
  { [landscape |-> L, new_params |-> << <<"f_max", 100 * Scale>> >>],
    [landscape |-> H, new_params |-> << <<"f_max", 400 * Scale>> >>],
    [landscape |-> D, new_params |-> << <<"f_max", 50 * Scale>> >>],
    [landscape |-> W, new_params |-> << <<"f_max", 50 * Scale>> >>],
    [landscape |-> L, new_params |-> << <<"f_max", 0 - 1>> >>],
    [landscape |-> L, new_params |-> << <<"f_max", 100 * Scale>>, <<"alpha", 1>> >>] }

SetAnimalSome == \E u \in AnimalUpdates : SetAnimalParameters(u)

SetLandscapeSome == \E u \in LandscapeUpdates : SetLandscapeParameters(u)

InitPar == InitOn({DesertGeography})

NextPar ==
  \/ SetAnimalSome
  \/ SetLandscapeSome
  \/ AnnualCycleBegin
  \/ PreMigration
  \/ Stage
  \/ Commit
  \/ MigrationReturn
  \/ PostMigration

SpecPar == InitPar /\ [][NextPar]_vars

(* a call of one of the two parameter setters returns or raises in this step *)
SetterStep ==
  /\ work' = work + 1
  /\ lastOp' \in {"set_animal_parameters_island", "set_landscape_parameters_island"}

(* C13: a parameter update that is rejected, for a species or for a         *)
(* terrain, changes no parameter: the valid keys of the same update keep    *)
(* their prior values too.                                                  *)
C13_RejectedUpdateChangesNothing ==
  [][(SetterStep /\ raised' # "none") => (params' = params /\ lparams' = lparams)]_vars

(* an update was rejected whose first key is a known parameter with a value *)
(* in range                                                                 *)
C13_Witness ==
  /\ lastOp \in {"set_animal_parameters_island", "set_landscape_parameters_island"}
  /\ raised # "none"
  /\ Len(arg.new_params) = 2
  /\ arg.new_params[1][2] >= 0
  /\ \/ "species" \in DOMAIN arg /\ arg.new_params[1][1] \in DOMAIN params[arg.species]
     \/ "landscape" \in DOMAIN arg /\ arg.new_params[1][1] = "f_max"

(* the coefficients of a species: every parameter but DeltaPhiMax *)
Coefficients ==
  {"w_birth", "sigma_birth", "beta", "eta", "a_half", "phi_age", "w_half",
   "phi_weight", "mu", "gamma", "zeta", "xi", "omega", "F"}

(* C14: whatever species updates were called, accepted or rejected, every  *)
(* coefficient of each species is not negative and eta is at most 1; and a *)
(* call that gives a negative value for a coefficient is rejected with     *)
(* ValueError.                                                             *)
C14_CoefficientsInRange ==
  /\ \A sp \in Species :
       /\ \A k \in Coefficients : params[sp][k] >= 0
       /\ params[sp].eta <= Scale
  /\ (/\ lastOp = "set_animal_parameters_island"
      /\ \A i \in 1..Len(arg.new_params) : arg.new_params[i][1] \in Coefficients
      /\ \E i \in 1..Len(arg.new_params) : arg.new_params[i][2] < 0)
     => raised = "ValueError"

(* C15: Herbivore never has a DeltaPhiMax value, also after an update for  *)
(* Herbivore that gives the key, and the DeltaPhiMax of Carnivore is        *)
(* greater than 0 in every state.                                          *)
C15_DeltaPhiMaxOfCarnivoreOnly ==
  /\ params.Herbivore.DeltaPhiMax = None
  /\ params.Carnivore.DeltaPhiMax # None
  /\ Get(params.Carnivore.DeltaPhiMax) > 0

(* C16: whatever terrain updates were called, f_max of Desert and of Water *)
(* is 0, and no Desert or Water cell holds fodder.                         *)
C16_NoFodderOnDesertOrWater ==
  /\ lparams.Desert.f_max = 0
  /\ lparams.Water.f_max = 0
  /\ \A loc \in DOMAIN map :
       map[loc].classname \in {"Desert", "Water"} => map[loc].fodder = 0

(* C17: in every state the fodder of each cell is at most the f_max of its *)
(* terrain, also after an update that lowers f_max and before the next     *)
(* regrowth; and a cell whose year has begun, and that holds no herbivore  *)
(* to eat from it, has exactly f_max.                                      *)
C17_FodderAtMostFMax ==
  \A loc \in DOMAIN map :
    /\ map[loc].fodder <= lparams[map[loc].classname].f_max
    /\ (phase[loc] # "none" /\ map[loc].herb_pop = <<>>)
         => map[loc].fodder = lparams[map[loc].classname].f_max

(* C18: on an island whose geography, placements and parameter updates     *)
(* were all accepted, an annual cycle that has started raises no error,    *)
(* whatever the random draws give.                                         *)
C18_CycleNeverRaises ==
  (lastOp = "annual_cycle_island" /\ accepted) => raised = "none"

(* C20: on an island without animals every annual cycle, also one that     *)
(* follows another, raises no error and leaves every population empty,    *)
(* and when it has returned the fodder of every habitable cell is the      *)
(* f_max of its terrain.                                                   *)
C20_EmptyIslandYears ==
  (lastOp = "annual_cycle_island" /\ AllIds(before) = {})
  => /\ raised = "none"
     /\ AllIds(map) = {}
     /\ pc = "idle" =>
          \A loc \in HabitableLocs :
            map[loc].fodder = lparams[map[loc].classname].f_max

(* the second of two cycles in a row has returned on the empty island *)
C20_Witness ==
  /\ lastOp = "annual_cycle_island" /\ pc = "idle"
  /\ step = 2 /\ work = 2
  /\ AllIds(map) = {}

----------------------------------------------------------------------------
(* simulation.py: two simulations that were given one seed, in one process *)

(* the generator of the random module: a state, the state after one more   *)
(* number was produced, and the state after k more                         *)
RngSize == 4 * 4
RngStates == 0..(RngSize - 1)

RngNext(g) == (5 * g + 3) % RngSize

RECURSIVE RngAfter(_, _)
RngAfter(g, k) == IF k = 0 THEN g ELSE RngAfter(RngNext(g), k - 1)

(* random.random() < p for a p strictly between 0 and 1, decided by the    *)
(* k-th number after g                                                     *)
Below(g, k) == RngAfter(g, k) >= RngSize \div 2

(* random.gauss(...) as the number of standard deviations from the mean *)
GaussOf(g, k) ==
  CASE RngAfter(g, k) % 3 = 0 -> 0
    [] RngAfter(g, k) % 3 = 1 -> 2
    [] RngAfter(g, k) % 3 = 2 -> 0 - 6

(* the decisions of one year of a cell, each a function of the generator's *)
(* state g at the start of the year                                        *)
OrderOf(n, g) == [i \in 1..n |-> ((i - 1 + RngAfter(g, 1)) % n) + 1]
KillsOf(cell, g) ==
  [ch \in IdsOf(cell.carn_pop) \X IdsOf(cell.herb_pop) |-> Below(g, ch[1] + 3 * ch[2])]
BirthsOf(cell, g) == [i \in LiveIds(cell) |-> Below(g, 5 * i)]
ZsOf(cell, g) == [i \in LiveIds(cell) |-> GaussOf(g, 5 * i + 1)]
MovesOf(cell, g) == [i \in LiveIds(cell) |-> Below(g, 5 * i + 2)]
ChoiceOf(movers, g) == [i \in IdsOf(movers) |-> (RngAfter(g, 5 * i + 3) % 4) + 1]
DeathsOf(cell, g) == [i \in LiveIds(cell) |-> Below(g, 5 * i + 4)]

(* the first loop of annual_cycle_island from the k-th cell on *)
RECURSIVE PreLoop(_, _, _, _)
PreLoop(m, k, id, g) ==
  IF k > NCells THEN [raised |-> "none", msg |-> "", map |-> m, nextId |-> id]
  ELSE CHOOSE result \in
    { IF r.raised # "none"
        THEN [raised |-> r.raised, msg |-> r.msg,
              map |-> [m EXCEPT ![keys[k]] = r.cell], nextId |-> r.nextId]
        ELSE PreLoop([m EXCEPT ![keys[k]] = r.cell], k + 1, r.nextId, g) :
      r \in { PreMigrationCycle(m[keys[k]], OrderOf(Len(m[keys[k]].carn_pop), g),
                                KillsOf(m[keys[k]], g), BirthsOf(m[keys[k]], g),
                                ZsOf(m[keys[k]], g), id, lparams, params) } } : TRUE

(* the first loop of island_migration from the k-th cell on *)
RECURSIVE StageLoop(_, _, _)
StageLoop(m, k, g) ==
  IF k > NCells THEN [raised |-> "none", msg |-> "", map |-> m]
  ELSE IF m[keys[k]].classname = "Water" THEN StageLoop(m, k + 1, g)
  ELSE IF \E n \in 1..4 : NeighbourLocs(keys[k])[n] \notin DOMAIN m
    THEN [raised |-> "KeyError", msg |-> "neighbour", map |-> m]
  ELSE CHOOSE result \in
    { StageLoop(RouteLoop([m EXCEPT ![keys[k]] = mig.cell], keys[k],
                          mig.migrators_herb \o mig.migrators_carn, 1,
                          ChoiceOf(mig.migrators_herb \o mig.migrators_carn, g)),
                k + 1, g) :
      mig \in { AnimalMigration(m[keys[k]], MovesOf(m[keys[k]], g), params) } } : TRUE

(* the second loop of island_migration from the k-th cell on *)
RECURSIVE CommitLoop(_, _)
CommitLoop(m, k) ==
  IF k > NCells THEN m
  ELSE IF m[keys[k]].classname = "Water" THEN CommitLoop(m, k + 1)
  ELSE CommitLoop([m EXCEPT ![keys[k]] = AddMigratersToPop(@)], k + 1)

(* the second loop of annual_cycle_island from the k-th cell on *)
RECURSIVE PostLoop(_, _, _)
PostLoop(m, k, g) ==
  IF k > NCells THEN m
  ELSE CHOOSE result \in
    { PostLoop([m EXCEPT ![keys[k]] = cell], k + 1, g) :
      cell \in { PostMigrationCycle(m[keys[k]], DeathsOf(m[keys[k]], g), params) } } : TRUE

(* Island.annual_cycle_island() as one step, on the map m *)
AnnualCycleIsland(m, id, g) ==
  CHOOSE result \in
    { IF pre.raised # "none" THEN pre
      ELSE CHOOSE staged \in
        { IF st.raised # "none"
            THEN [raised |-> st.raised, msg |-> st.msg, map |-> st.map,
                  nextId |-> pre.nextId]
            ELSE [raised |-> "none", msg |-> "",
                  map |-> PostLoop(CommitLoop(st.map, 1), 1, g),
                  nextId |-> pre.nextId] :
          st \in { StageLoop(pre.map, 1, g) } } : TRUE :
      pre \in { PreLoop(m, 1, id, g) } } : TRUE

(* the seeds and the initial populations of the two simulations *)
Seeds == {1, 2}
IniPops == {<<RecH>>, <<RecH, RecH>>, <<RecH, RecC>>}

(* BioSim(island_map, ini_pop, seed) twice with the same arguments: the    *)
(* island is built, the population is placed, and the seed is stored.  The *)
(* generator is in the state the process has left it in.                   *)
InitSeed ==
  /\ geogr = OneCellGeography
  /\ built = "yes"
  /\ keys = KeysOf(geogr)
  /\ params = [Herbivore |-> HerbivoreParameters, Carnivore |-> CarnivoreParameters]
  /\ lparams = LandscapeParameters
  /\ \E ini_pop \in IniPops :
     \E r \in {PlaceLoop(createmap(geogr, lparams).map,
                         <<[loc |-> <<2, 2>>, pop |-> ini_pop]>>, 1, <<>>, 1, params)} :
       /\ map = r.map
       /\ nextId = r.nextId
       /\ twin = [map |-> r.map, nextId |-> r.nextId, step |-> 0]
       /\ before = r.map
       /\ arg = <<[loc |-> <<2, 2>>, pop |-> ini_pop]>>
  /\ seed \in Seeds
  /\ rng \in RngStates
  /\ loop = <<>>
  /\ pc = "idle"
  /\ idx = 0
  /\ lastOp = "BioSim"
  /\ raised = "none"
  /\ msg = ""
  /\ work = 0
  /\ phase = [loc \in DOMAIN map |-> "none"]
  /\ hops = <<>>
  /\ accepted = TRUE
  /\ step = 0

(* the numbers one year takes from the generator: at least one, and one    *)
(* for each animal                                                         *)
Taken(m) == 1 + Cardinality(AllIds(m))

(* BioSim.simulate(1) of the first simulation, without graphics *)
SimulateFirst ==
  /\ pc = "idle" /\ built = "yes" /\ work < MaxWork
  /\ \E r \in {AnnualCycleIsland(map, nextId, rng)} :
       /\ map' = r.map
       /\ nextId' = r.nextId
       /\ raised' = r.raised
       /\ msg' = r.msg
       /\ step' = IF r.raised = "none" THEN step + 1 ELSE step
  /\ rng' = RngAfter(rng, Taken(map))
  /\ before' = map
  /\ lastOp' = "simulate"
  /\ arg' = <<1>>
  /\ work' = work + 1
  /\ phase' = NoPhase
  /\ UNCHANGED <<geogr, built, keys, params, lparams, pc, idx, hops, accepted, seed, twin,
                 loop>>

(* BioSim.simulate(1) of the second simulation *)
SimulateSecond ==
  /\ pc = "idle" /\ built = "yes" /\ work < MaxWork
  /\ \E r \in {AnnualCycleIsland(twin.map, twin.nextId, rng)} :
       /\ twin' = [map |-> r.map, nextId |-> r.nextId,
                   step |-> IF r.raised = "none" THEN twin.step + 1 ELSE twin.step]
       /\ raised' = r.raised
       /\ msg' = r.msg
  /\ rng' = RngAfter(rng, Taken(twin.map))
  /\ before' = twin.map
  /\ lastOp' = "simulate"
  /\ arg' = <<2>>
  /\ work' = work + 1
  /\ phase' = NoPhase
  /\ UNCHANGED <<geogr, built, map, keys, params, lparams, pc, idx, nextId, hops,
                 accepted, step, seed, loop>>

NextSeed ==
  \/ SimulateFirst
  \/ SimulateSecond

SpecSeed == InitSeed /\ [][NextSeed]_vars

(* C19: two simulations with the same geography, initial population,       *)
(* parameters and seed hold the same number of herbivores and of           *)
(* carnivores in every cell whenever they have run the same number of      *)
(* years.                                                                  *)
C19_SameSeedSameCounts ==
  step = twin.step =>
    \A loc \in DOMAIN map :
      /\ Len(map[loc].herb_pop) = Len(twin.map[loc].herb_pop)
      /\ Len(map[loc].carn_pop) = Len(twin.map[loc].carn_pop)

----------------------------------------------------------------------------
(* landscape.py: the methods of one cell called directly, as the tests of   *)
(* the landscape and of the animals call them                              *)

MaxHerd == 3
MaxPack == 2
MaxCalls == 2

(* the cell of the one-cell island *)
TheCell == <<2, 2>>

(* ages and weights of the herbivores and carnivores of the cell: a        *)
(* herbivore of weight w_half, an old heavy one and one without weight; a  *)
(* carnivore in good shape and one without weight                          *)
HerbKinds == {<<5, 10 * Scale>>, <<45, 60 * Scale>>, <<5, 0>>}
CarnKinds == {<<5, 20 * Scale>>, <<5, 0>>}

(* the lists of at most n different elements of kinds *)
ListsOf(kinds, n) ==
  {s \in UNION {[1..k -> kinds] : k \in 0..n} :
     \A a, b \in DOMAIN s : s[a] = s[b] => a = b}

(* Herbivore(age, weight) or Carnivore(age, weight) for each element of    *)
(* kinds, with the identities first, first + 1, ...                        *)
Built(species, kinds, first, prm) ==
  [k \in DOMAIN kinds |->
     AnimalInit(species, first + k - 1, Some(kinds[k][1]), Some(kinds[k][2]), 0,
                prm[species]).animal]

(* the fodder the tests leave a cell with: f_max, or an amount they assign *)
Fodders == {800 * Scale, 15 * Scale, 10 * Scale}

(* no method is running on the cell *)
NoLoop == [i |-> 0, j |-> 0, survivors |-> <<>>, log |-> <<>>]

(* Lowland(herb_pop, carn_pop), and cell.fodder = ... *)
InitCell ==
  /\ geogr = OneCellGeography
  /\ built = "yes"
  /\ keys = KeysOf(geogr)
  /\ params = [Herbivore |-> HerbivoreParameters, Carnivore |-> CarnivoreParameters]
  /\ lparams = LandscapeParameters
  /\ \E herd \in ListsOf(HerbKinds, MaxHerd) : \E pack \in ListsOf(CarnKinds, MaxPack) :
     \E fodder \in Fodders :
       /\ map = [createmap(geogr, lparams).map EXCEPT
                   ![TheCell].herb_pop = Built("Herbivore", herd, 1, params),
                   ![TheCell].carn_pop = Built("Carnivore", pack, Len(herd) + 1, params),
                   ![TheCell].fodder = fodder]
       /\ nextId = Len(herd) + Len(pack) + 1
  /\ before = map
  /\ pc = "idle"
  /\ idx = 0
  /\ lastOp = "Lowland"
  /\ arg = <<>>
  /\ raised = "none"
  /\ msg = ""
  /\ work = 0
  /\ phase = [loc \in DOMAIN map |-> "none"]
  /\ hops = <<>>
  /\ accepted = TRUE
  /\ step = 0
  /\ seed = 0 /\ rng = 0 /\ twin = <<>>
  /\ loop = NoLoop

(* a method of the cell is called: what every call does to the record of   *)
(* the run                                                                 *)
CellCall(op) ==
  /\ pc = "idle" /\ work < MaxCalls
  /\ lastOp' = op
  /\ arg' = <<>>
  /\ before' = map
  /\ work' = work + 1
  /\ phase' = NoPhase
  /\ UNCHANGED <<geogr, built, keys, params, lparams, idx, hops, accepted, step,
                 seed, rng, twin>>

(* the method goes on *)
CellStep ==
  UNCHANGED <<geogr, built, keys, params, lparams, idx, hops, accepted, step,
              seed, rng, twin, lastOp, arg, before, work, phase, raised, msg, nextId>>

(* the call raises nothing and creates no animal *)
Quiet == raised' = "none" /\ msg' = "" /\ nextId' = nextId

(* cell.regrowth() *)
CellRegrowth ==
  /\ CellCall("regrowth")
  /\ map' = [map EXCEPT ![TheCell] = Regrowth(@, lparams)]
  /\ loop' = NoLoop
  /\ pc' = pc
  /\ Quiet

(* cell.herbivores_eating() is called: the sort, and the loop is entered *)
HerbivoresEatingBegin ==
  /\ CellCall("herbivores_eating")
  /\ map' = [map EXCEPT ![TheCell] = SortHerbsByFitness(@, TRUE)]
  /\ pc' = IF map[TheCell].herb_pop = <<>> THEN "idle" ELSE "graze"
  /\ loop' = [NoLoop EXCEPT !.i = 1]
  /\ Quiet

(* one pass of the loop of herbivores_eating *)
Graze ==
  /\ pc = "graze"
  /\ LET cell == map[TheCell]
         herb == RegainAppetite(cell.herb_pop[loop.i], params.Herbivore)
         fed == HerbivoreFeeding(herb, cell.fodder, params.Herbivore)
     IN IF cell.fodder > 0
          THEN /\ map' = [map EXCEPT ![TheCell].herb_pop[loop.i] = fed.animal,
                                     ![TheCell].fodder = @ - fed.portion]
               /\ loop' = [loop EXCEPT
                             !.i = @ + 1,
                             !.log = Append(@, [op |-> "herbivore_feeding",
                                                herb |-> herb,
                                                fodder |-> cell.fodder,
                                                portion |-> fed.portion,
                                                after |-> fed.animal])]
               /\ pc' = IF loop.i = Len(cell.herb_pop) THEN "idle" ELSE "graze"
          ELSE /\ map' = [map EXCEPT ![TheCell].herb_pop[loop.i] = herb]
               /\ loop' = loop
               /\ pc' = "idle"
  /\ CellStep

(* cell.carnivores_eating() is called: random.shuffle(self.carn_pop), and  *)
(* the outer loop is entered                                               *)
CarnivoresEatingBegin ==
  /\ CellCall("carnivores_eating")
  /\ \E order \in Shuffles(Len(map[TheCell].carn_pop)) :
       map' = [map EXCEPT ![TheCell].carn_pop =
                 [k \in 1..Len(order) |-> map[TheCell].carn_pop[order[k]]]]
  /\ pc' = IF map[TheCell].carn_pop = <<>> THEN "idle" ELSE "hunt"
  /\ loop' = [NoLoop EXCEPT !.i = 1]
  /\ Quiet

(* the outer loop of carnivores_eating goes to its next carnivore, or ends *)
NextCarnivore(log) ==
  IF loop.i = Len(map[TheCell].carn_pop)
    THEN pc' = "idle" /\ loop' = [NoLoop EXCEPT !.log = log]
    ELSE pc' = "hunt" /\ loop' = [NoLoop EXCEPT !.i = loop.i + 1, !.log = log]

(* one step of carnivores_eating: the carnivore at i regains its appetite  *)
(* and its inner loop is entered or skipped (j = 0), or it calls           *)
(* carnivore_feeding on the herbivore at j; after the last herbivore the   *)
(* survivors become the herbivores of the cell                             *)
Hunt ==
  /\ pc = "hunt"
  /\ LET cell == map[TheCell] IN
     IF loop.j = 0
       THEN LET carn == RegainAppetite(cell.carn_pop[loop.i], params.Carnivore) IN
            IF Len(cell.herb_pop) > 0 /\ carn.appetite > 0
              THEN /\ map' = [map EXCEPT ![TheCell] =
                               [SortHerbsByFitness(cell, FALSE) EXCEPT
                                  !.carn_pop[loop.i] = carn]]
                   /\ loop' = [loop EXCEPT !.j = 1, !.survivors = <<>>]
                   /\ pc' = "hunt"
              ELSE /\ map' = [map EXCEPT ![TheCell].carn_pop[loop.i] = carn]
                   /\ NextCarnivore(loop.log)
       ELSE \E draw \in BOOLEAN :
            \E r \in {CarnivoreFeeding(cell.carn_pop[loop.i], cell.herb_pop[loop.j],
                                       draw, params.Carnivore)} :
            \E survivors \in {IF r.killed THEN loop.survivors
                              ELSE Append(loop.survivors, cell.herb_pop[loop.j])} :
            \E log \in {Append(loop.log, [op |-> "carnivore_feeding",
                                          carn |-> cell.carn_pop[loop.i],
                                          herb |-> cell.herb_pop[loop.j],
                                          draw |-> draw,
                                          killed |-> r.killed,
                                          after |-> r.carn])} :
              IF loop.j = Len(cell.herb_pop)
                THEN /\ map' = [map EXCEPT ![TheCell].carn_pop[loop.i] = r.carn,
                                           ![TheCell].herb_pop = survivors]
                     /\ NextCarnivore(log)
                ELSE /\ map' = [map EXCEPT ![TheCell].carn_pop[loop.i] = r.carn]
                     /\ loop' = [loop EXCEPT !.j = @ + 1, !.survivors = survivors,
                                             !.log = log]
                     /\ pc' = "hunt"
  /\ CellStep

(* cell.population_death() *)
CellPopulationDeath ==
  /\ CellCall("population_death")
  /\ \E deaths \in [LiveIds(map[TheCell]) -> BOOLEAN] :
       map' = [map EXCEPT ![TheCell] = PopulationDeath(@, deaths, params)]
  /\ loop' = NoLoop
  /\ pc' = pc
  /\ Quiet

(* animal.gives_birth(pop_size) for the animal at k of a list of the cell *)
GivesBirthCall ==
  /\ CellCall("gives_birth")
  /\ \E f \in LiveLists : \E k \in 1..Len(map[TheCell][f]) :
     \E pop_size \in {Len(map[TheCell][f]), 10} :
     \E draw \in BOOLEAN : \E z \in GaussZ :
     \E r \in {GivesBirth(map[TheCell][f][k], pop_size, draw, z, nextId,
                          params[map[TheCell][f][k].species])} :
       /\ map' = [map EXCEPT ![TheCell][f][k] = r.parent]
       /\ raised' = r.raised
       /\ msg' = r.msg
       /\ nextId' = IF r.newborn = None THEN nextId ELSE nextId + 1
       /\ loop' = [NoLoop EXCEPT !.log = <<[op |-> "gives_birth",
                                            parent |-> map[TheCell][f][k],
                                            pop_size |-> pop_size,
                                            after |-> r.parent,
                                            newborn |-> r.newborn]>>]
  /\ pc' = pc

(* a faulty extend: the list is replaced by what should be added to it *)
ExtendReplacing(population, newborns) == newborns

(* population.extend(newborns) *)
Extend(population, newborns) == population \o newborns

(* pop_size = len(population) *)
PopSize(population) == Len(population)

(* the list reproduction is working on: herb_pop first, then carn_pop *)
BreedList == IF loop.j = 1 THEN "herb_pop" ELSE "carn_pop"

(* newborn_pop(population) is entered for the list at j: the snapshot of   *)
(* the population size, and no newborns yet                                *)
EnterNewbornPop(j, m, log) ==
  [i |-> 1, j |-> j, survivors |-> <<>>, log |-> log,
   pop_size |-> PopSize(m[TheCell][IF j = 1 THEN "herb_pop" ELSE "carn_pop"])]

(* cell.reproduction() is called *)
ReproductionBegin ==
  /\ CellCall("reproduction")
  /\ map' = map
  /\ loop' = EnterNewbornPop(1, map, <<>>)
  /\ pc' = "breed"
  /\ Quiet

(* one step of reproduction: the parent at i of the list at j is asked to  *)
(* give birth, or, behind the last parent, the list is extended with the   *)
(* newborns and the next list is entered or the method returns; an         *)
(* exception out of gives_birth leaves the method                          *)
Breed ==
  /\ pc = "breed"
  /\ LET population == map[TheCell][BreedList] IN
     IF loop.i > Len(population)
       THEN /\ map' = [map EXCEPT ![TheCell][BreedList] = Extend(@, loop.survivors)]
            /\ IF loop.j = 1
                 THEN pc' = "breed" /\ loop' = EnterNewbornPop(2, map', loop.log)
                 ELSE pc' = "idle" /\ loop' = [NoLoop EXCEPT !.log = loop.log]
            /\ UNCHANGED <<raised, msg, nextId>>
       ELSE \E draw \in BOOLEAN : \E z \in GaussZ :
            \E r \in {GivesBirth(population[loop.i], loop.pop_size, draw, z, nextId,
                                 params[population[loop.i].species])} :
            \E log \in {Append(loop.log, [op |-> "gives_birth",
                                          parent |-> population[loop.i],
                                          pop_size |-> loop.pop_size,
                                          after |-> r.parent,
                                          newborn |-> r.newborn])} :
              /\ map' = [map EXCEPT ![TheCell][BreedList][loop.i] = r.parent]
              /\ raised' = r.raised
              /\ msg' = r.msg
              /\ nextId' = IF r.newborn = None THEN nextId ELSE nextId + 1
              /\ IF r.raised # "none"
                   THEN pc' = "idle" /\ loop' = [NoLoop EXCEPT !.log = log]
                   ELSE /\ pc' = "breed"
                        /\ loop' = [loop EXCEPT
                                      !.i = @ + 1,
                                      !.log = log,
                                      !.survivors = IF r.newborn = None THEN @
                                                    ELSE Append(@, Get(r.newborn))]
  /\ UNCHANGED <<geogr, built, keys, params, lparams, idx, hops, accepted, step,
                 seed, rng, twin, lastOp, arg, before, work, phase>>

(* the species updates of the cell tests: births without a least weight,  *)
(* a larger appetite, and no births at all                                 *)
CellUpdates ==
  { [species |-> "Herbivore", new_params |-> << <<"zeta", 0>> >>],
    [species |-> "Herbivore", new_params |-> << <<"F", 20 * Scale>> >>],
    [species |-> "Herbivore", new_params |-> << <<"gamma", 0>> >>] }

(* Herbivore.set_parameters(new_params) between two calls on the cell *)
SetCellParameters ==
  /\ work < MaxCalls
  /\ loop' = NoLoop
  /\ \E u \in CellUpdates : SetAnimalParameters(u)

NextCell ==
  \/ CellRegrowth
  \/ HerbivoresEatingBegin
  \/ Graze
  \/ CarnivoresEatingBegin
  \/ Hunt
  \/ CellPopulationDeath
  \/ GivesBirthCall
  \/ ReproductionBegin
  \/ Breed
  \/ SetCellParameters

SpecCell == InitCell /\ [][NextCell]_vars

(* C21: when population_death has run on a cell, no animal left in its     *)
(* herbivore or carnivore list has a weight of 0 or less: such an animal   *)
(* is removed whatever the draw is.                                        *)
C21_NoWeightlessSurvivor ==
  lastOp = "population_death" =>
    \A f \in LiveLists : \A k \in 1..Len(map[TheCell][f]) :
      map[TheCell][f][k].weight > 0

(* population_death has run on a cell that held an animal without weight   *)
(* next to one with weight, and the one with weight is still there         *)
C21_Witness ==
  /\ lastOp = "population_death"
  /\ \E f \in LiveLists : \E k \in 1..Len(before[TheCell][f]) :
       before[TheCell][f][k].weight <= 0
  /\ AllIds(map) # {}

(* C22: gives_birth never leaves the parent with a negative weight.  When   *)
(* it returns a newborn, the parent weighed at least xi times the           *)
(* newborn's weight and has lost exactly that much; when it returns no      *)
(* newborn, the parent is as it was, weight and fitness included, and the   *)
(* lists of the cell hold the animals they held.                            *)
C22_BirthCostsXiTimesNewborn ==
  (lastOp = "gives_birth" /\ loop.log # <<>>) =>
    LET e == loop.log[1]
        xi == params[e.parent.species].xi
    IN /\ e.after.weight >= 0
       /\ e.newborn # None =>
            /\ e.parent.weight >= FixMul(xi, Get(e.newborn).weight)
            /\ e.after.weight = e.parent.weight - FixMul(xi, Get(e.newborn).weight)
       /\ e.newborn = None =>
            /\ e.after = e.parent
            /\ map = before

(* a parent has given birth and has lost weight for it *)
C22_Witness ==
  /\ lastOp = "gives_birth" /\ loop.log # <<>>
  /\ loop.log[1].newborn # None
  /\ loop.log[1].after.weight < loop.log[1].parent.weight
  /\ Get(loop.log[1].newborn).weight > 0

----------------------------------------------------------------------------
(* island.py: one year of a flock of herbivores of one age and weight on   *)
(* the island WWW / WLW / WWW                                              *)

MaxFlock == 3

(* {'species': 'Herbivore', 'age': 5, 'weight': 20} *)
RecFlock == [species |-> "Herbivore", age |-> Some(5), weight |-> Some(20 * Scale)]

(* Island('WWW\nWLW\nWWW') and place_population of n such herbivores at    *)
(* (2, 2), in a run with one more call to make                             *)
InitYear ==
  /\ geogr = OneCellGeography
  /\ built = "yes"
  /\ keys = KeysOf(geogr)
  /\ params = [Herbivore |-> HerbivoreParameters, Carnivore |-> CarnivoreParameters]
  /\ lparams = LandscapeParameters
  /\ \E n \in 1..MaxFlock :
     \E r \in {PlaceLoop(createmap(geogr, lparams).map,
                         <<[loc |-> TheCell, pop |-> [k \in 1..n |-> RecFlock]]>>,
                         1, <<>>, 1, params)} :
       /\ map = r.map
       /\ nextId = r.nextId
       /\ raised = r.raised
       /\ msg = r.msg
  /\ before = createmap(geogr, lparams).map
  /\ pc = "idle"
  /\ idx = 0
  /\ lastOp = "place_population"
  /\ arg = <<>>
  /\ work = MaxWork - 1
  /\ phase = [loc \in DOMAIN map |-> "none"]
  /\ hops = <<>>
  /\ accepted = TRUE
  /\ step = 0
  /\ seed = 0 /\ rng = 0 /\ twin = <<>>
  /\ loop = <<>>

NextYear ==
  \/ AnnualCycleBegin
  \/ PreMigration
  \/ Stage
  \/ Commit
  \/ MigrationReturn
  \/ PostMigration

SpecYear == InitYear /\ [][NextYear]_vars

(* the herbivores of every cell of m *)
HerbIds(m) == UNION {IdsOf(m[loc].herb_pop) : loc \in DOMAIN m}

(* C23: on the island WWW / WLW / WWW with the default parameters and a    *)
(* flock of herbivores of age 5 and weight 20 placed at (2, 2), when the   *)
(* first annual cycle has returned every herbivore on the island has age   *)
(* 6, there are at most as many herbivores as were placed plus the         *)
(* newborns, and the fodder at (2, 2) is f_max less F for each herbivore   *)
(* that ate, which is no more than f_max.                                  *)
C23_FirstYearOfTheFlock ==
  (lastOp = "annual_cycle_island" /\ pc = "idle" /\ raised = "none") =>
    LET flock == Len(before[TheCell].herb_pop)
        eaten == flock * params.Herbivore.F
    IN /\ \A loc \in DOMAIN map : \A k \in 1..Len(map[loc].herb_pop) :
            map[loc].herb_pop[k].age = 6
       /\ Cardinality(HerbIds(map))
            <= flock + Cardinality(HerbIds(map) \ HerbIds(before))
       /\ eaten <= lparams.Lowland.f_max
       /\ map[TheCell].fodder = lparams.Lowland.f_max - eaten

(* the first cycle has returned and herbivores of the flock have lived     *)
(* through it, each 9 heavier for the fodder and 5 % lighter for the year  *)
C23_Witness ==
  /\ lastOp = "annual_cycle_island" /\ pc = "idle" /\ raised = "none"
  /\ Len(before[TheCell].herb_pop) = MaxFlock
  /\ Len(map[TheCell].herb_pop) >= 2
  /\ \A k \in 1..Len(map[TheCell].herb_pop) :
       map[TheCell].herb_pop[k].weight = 27550

----------------------------------------------------------------------------
(* animals.py: the methods of one animal called directly, as the tests of  *)
(* the animals call them.  The animal is kept as the one animal of the     *)
(* list of its species at (2, 2).                                          *)

(* ages and weights the animal is built with, the years it is aged by and  *)
(* the weights it is set to: zero, a_half, the w_half of each species, and *)
(* an age far beyond a_half                                                *)
FitAges == {0, 5, 40, 1300}
FitWeights == {0, 4 * Scale, 10 * Scale, 20 * Scale}
FitYears == {None, Some(35), Some(40), Some(1300)}



(* the animals under test: none or one *)
Subject == map[TheCell].herb_pop \o map[TheCell].carn_pop

InitFit ==
  /\ geogr = OneCellGeography
  /\ built = "yes"
  /\ keys = KeysOf(geogr)
  /\ params = [Herbivore |-> HerbivoreParameters, Carnivore |-> CarnivoreParameters]
  /\ lparams = LandscapeParameters
  /\ map = createmap(geogr, lparams).map
  /\ nextId = 1
  /\ before = map
  /\ pc = "idle"
  /\ idx = 0
  /\ lastOp = "Island"
  /\ arg = <<>>
  /\ raised = "none"
  /\ msg = ""
  /\ work = 0
  /\ phase = [loc \in DOMAIN map |-> "none"]
  /\ hops = <<>>
  /\ accepted = TRUE
  /\ step = 0
  /\ seed = 0 /\ rng = 0 /\ twin = <<>>
  /\ loop = <<>>

(* a method of the animal, or its constructor, is called *)
FitCall(op) ==
  /\ pc = "idle" /\ work < MaxWork
  /\ lastOp' = op
  /\ arg' = <<>>
  /\ before' = map
  /\ work' = work + 1
  /\ UNCHANGED <<geogr, built, keys, params, lparams, pc, idx, phase, hops, accepted,
                 step, seed, rng, twin, loop>>

(* Herbivore(age, weight) or Carnivore(age, weight): the animal under test *)
NewAnimal ==
  /\ FitCall("Animal")
  /\ Subject = <<>>
  /\ \E species \in Species : \E age \in FitAges : \E weight \in FitWeights :
     \E r \in {AnimalInit(species, nextId, Some(age), Some(weight), 0, params[species])} :
       /\ raised' = r.raised
       /\ msg' = r.msg
       /\ IF r.raised # "none" THEN map' = map /\ nextId' = nextId
          ELSE /\ map' = [map EXCEPT ![TheCell][ListOf(species)] = <<r.animal>>]
               /\ nextId' = nextId + 1

(* a method of the animal under test that ends in self.update_fitness():   *)
(* changed is the animal as the method has left it when update_fitness is  *)
(* entered                                                                 *)
ThenUpdateFitness(changed) ==
  LET P == params[changed.species]
      f == ListOf(changed.species)
  IN IF Overflows(changed.age, changed.weight, P)
       THEN /\ map' = [map EXCEPT ![TheCell][f][1] = changed]
            /\ raised' = "OverflowError"
            /\ msg' = "math range error"
       ELSE /\ map' = [map EXCEPT ![TheCell][f][1] = UpdateFitness(changed, P)]
            /\ raised' = "none"
            /\ msg' = ""

(* animal.update_age(years) *)
UpdateAgeCall ==
  /\ FitCall("update_age")
  /\ Subject # <<>>
  /\ \E years \in FitYears :
       ThenUpdateFitness([Subject[1] EXCEPT
                            !.age = @ + (IF years # None THEN Get(years) ELSE 1)])
  /\ nextId' = nextId

(* animal.set_weight(new_weight): the fitness is left as it was *)
SetWeightCall ==
  /\ FitCall("set_weight")
  /\ Subject # <<>>
  /\ \E new_weight \in FitWeights :
       map' = [map EXCEPT ![TheCell][ListOf(Subject[1].species)][1].weight = new_weight]
  /\ Quiet

(* animal.update_fitness() *)
UpdateFitnessCall ==
  /\ FitCall("update_fitness")
  /\ Subject # <<>>
  /\ ThenUpdateFitness(Subject[1])
  /\ nextId' = nextId

(* the fodder herbivore_feeding is called with: none, less than F, more *)
FeedFodders == {0, 5 * Scale, 20 * Scale}

(* herbivore.herbivore_feeding(landscape_fodder) on the animal under test, *)
(* with what it was called on and what it returned                         *)
HerbivoreFeedingCall ==
  /\ pc = "idle" /\ work < MaxWork
  /\ Subject # <<>> /\ Subject[1].species = "Herbivore"
  /\ \E landscape_fodder \in FeedFodders :
     \E r \in {HerbivoreFeeding(Subject[1], landscape_fodder, params.Herbivore)} :
       /\ map' = [map EXCEPT ![TheCell].herb_pop[1] = r.animal]
       /\ loop' = [NoLoop EXCEPT !.log = <<[op |-> "herbivore_feeding",
                                            herb |-> Subject[1],
                                            fodder |-> landscape_fodder,
                                            portion |-> r.portion,
                                            after |-> r.animal]>>]
       /\ arg' = <<landscape_fodder>>
  /\ lastOp' = "herbivore_feeding"
  /\ before' = map
  /\ work' = work + 1
  /\ Quiet
  /\ UNCHANGED <<geogr, built, keys, params, lparams, pc, idx, phase, hops, accepted,
                 step, seed, rng, twin>>

NextFit ==
  \/ NewAnimal
  \/ UpdateAgeCall
  \/ SetWeightCall
  \/ UpdateFitnessCall
  \/ HerbivoreFeedingCall

SpecFit == InitFit /\ [][NextFit]_vars

(* the constructor, update_age and update_fitness: the calls that run      *)
(* update_fitness                                                          *)
RanUpdateFitness == lastOp \in {"Animal", "update_age", "update_fitness"}

(* C24: for either species and any age, update_fitness leaves an animal    *)
(* whose weight is 0 or less with fitness 0, an animal of age a_half and   *)
(* weight w_half with fitness 1/4, and any animal with a fitness from 0 to *)
(* 1: the call returns with that fitness set.                              *)
C24_FitnessAfterUpdate ==
  RanUpdateFitness =>
    /\ raised = "none"
    /\ \A k \in 1..Len(Subject) :
         LET a == Subject[k]
             P == params[a.species]
         IN /\ a.weight <= 0 => a.fitness = 0
            /\ (a.age * Scale = P.a_half /\ a.weight = P.w_half) => 4 * a.fitness = Scale
            /\ 0 <= a.fitness /\ a.fitness <= Scale

(* the calls of carnivore_feeding the running or last carnivores_eating    *)
(* has made                                                                *)
Attempts == SelectSeq(loop.log, LAMBDA e : e.op = "carnivore_feeding")

(* C25: during carnivores_eating a carnivore stops hunting as soon as its  *)
(* appetite is exhausted: every kill attempt it makes, it makes with an    *)
(* appetite above 0.                                                       *)
C25_NoAttemptOnceSated ==
  lastOp = "carnivores_eating" =>
    \A k \in 1..Len(Attempts) : Attempts[k].carn.appetite > 0

(* C26: on every kill the carnivore eats the smaller of its appetite and   *)
(* the prey's weight, loses that much appetite and gains beta times that   *)
(* much weight; so its appetite is never below 0, which is to say it never *)
(* eats more than F in one carnivores_eating; and the prey it killed is    *)
(* gone from the cell when the method returns.                             *)
C26_KillEatsMinOfAppetiteAndPrey ==
  lastOp = "carnivores_eating" =>
    /\ \A k \in 1..Len(Attempts) :
         LET e == Attempts[k]
             eaten == Min(e.carn.appetite, e.herb.weight)
         IN e.killed =>
              /\ e.after.appetite = e.carn.appetite - eaten
              /\ e.after.weight = e.carn.weight + FixMul(params.Carnivore.beta, eaten)
              /\ e.after.appetite >= 0
              /\ pc = "idle" => e.herb.id \notin IdsOf(map[TheCell].herb_pop)
    /\ \A k \in 1..Len(map[TheCell].carn_pop) : map[TheCell].carn_pop[k].appetite >= 0

(* C27: in carnivores_eating each carnivore is sent against the herbivores *)
(* from the least fit to the fittest and against each herbivore at most    *)
(* once; a herbivore that was killed is attempted by no one afterwards and *)
(* is gone from the cell when the method returns; the cell never holds     *)
(* more herbivores than before the call and holds the carnivores it held.  *)
C27_WeakestFirstEachOnce ==
  lastOp = "carnivores_eating" =>
    /\ \A j, k \in 1..Len(Attempts) :
         (j < k /\ Attempts[j].carn.id = Attempts[k].carn.id) =>
           /\ Attempts[j].herb.fitness <= Attempts[k].herb.fitness
           /\ Attempts[j].herb.id # Attempts[k].herb.id
    /\ \A j, k \in 1..Len(Attempts) :
         (j < k /\ Attempts[j].killed) => Attempts[j].herb.id # Attempts[k].herb.id
    /\ \A j \in 1..Len(Attempts) :
         (pc = "idle" /\ Attempts[j].killed) =>
           Attempts[j].herb.id \notin IdsOf(map[TheCell].herb_pop)
    /\ Len(map[TheCell].herb_pop) <= Len(before[TheCell].herb_pop)
    /\ IdsOf(map[TheCell].herb_pop) \subseteq IdsOf(before[TheCell].herb_pop)
    /\ Len(map[TheCell].carn_pop) = Len(before[TheCell].carn_pop)
    /\ IdsOf(map[TheCell].carn_pop) = IdsOf(before[TheCell].carn_pop)

(* carnivores_eating has returned: the first carnivore went from a less    *)
(* fit herbivore to a fitter one and killed, and a second carnivore was    *)
(* sent against what was left                                              *)
C27_Witness ==
  /\ lastOp = "carnivores_eating" /\ pc = "idle"
  /\ \E j, k, l \in 1..Len(Attempts) :
       /\ j < k /\ k < l
       /\ Attempts[j].carn.id = Attempts[k].carn.id
       /\ Attempts[j].herb.fitness < Attempts[k].herb.fitness
       /\ Attempts[j].killed \/ Attempts[k].killed
       /\ Attempts[l].carn.id # Attempts[j].carn.id

(* C28: carnivore_feeding does not kill when the carnivore is no fitter    *)
(* than the prey, whatever the draw, nor when the draw fails against a     *)
(* kill probability below 1: it returns False, the carnivore keeps its     *)
(* appetite, weight and fitness, and a herbivore no attempt has killed is  *)
(* in the cell as it was when carnivores_eating returns.                   *)
C28_NoKillNoChange ==
  lastOp = "carnivores_eating" =>
    \A k \in 1..Len(Attempts) :
      LET e == Attempts[k]
          delta_phi == e.carn.fitness - e.herb.fitness
          spared == \/ delta_phi <= 0
                    \/ delta_phi < Get(params.Carnivore.DeltaPhiMax) /\ ~e.draw
          never == \A j \in 1..Len(Attempts) :
                     Attempts[j].herb.id = e.herb.id => ~Attempts[j].killed
      IN /\ spared => (~e.killed /\ e.after = e.carn)
         /\ (pc = "idle" /\ never) =>
              \E i \in 1..Len(map[TheCell].herb_pop) : map[TheCell].herb_pop[i] = e.herb

(* carnivores_eating has returned: a carnivore no fitter than its prey was *)
(* sent against it with a draw that would have killed, and a fitter        *)
(* carnivore's draw failed                                                 *)
C28_Witness ==
  /\ lastOp = "carnivores_eating" /\ pc = "idle"
  /\ \E j \in 1..Len(Attempts) :
       /\ Attempts[j].carn.fitness = Attempts[j].herb.fitness
       /\ Attempts[j].draw
  /\ \E k \in 1..Len(Attempts) :
       /\ Attempts[k].carn.fitness > Attempts[k].herb.fitness
       /\ ~Attempts[k].draw
       /\ Attempts[k].after = Attempts[k].carn

(* the calls of herbivore_feeding the running or last herbivores_eating    *)
(* has made                                                                *)
Feedings == SelectSeq(loop.log, LAMBDA e : e.op = "herbivore_feeding")

(* what the herbivore id was given by herbivores_eating: the portion of    *)
(* its herbivore_feeding, or nothing when the loop ended before its turn   *)
PortionOf(id) ==
  IF \E k \in 1..Len(Feedings) : Feedings[k].herb.id = id
    THEN Feedings[CHOOSE k \in 1..Len(Feedings) : Feedings[k].herb.id = id].portion
    ELSE 0

(* the herbivores of the cell as herbivores_eating found them *)
HerdBefore == {before[TheCell].herb_pop[k] : k \in 1..Len(before[TheCell].herb_pop)}

(* C29 as stated: when herbivores_eating has returned, for every herbivore *)
(* that was given less than F, nothing included, every herbivore that was  *)
(* fitter at the start was given a full F and every herbivore that was     *)
(* less fit was given nothing.                                             *)
C29_LessThanFullMeansFitterFull ==
  (lastOp = "herbivores_eating" /\ pc = "idle") =>
    \A a, b \in HerdBefore :
      PortionOf(a.id) < params.Herbivore.F =>
        /\ b.fitness > a.fitness => PortionOf(b.id) = params.Herbivore.F
        /\ b.fitness < a.fitness => PortionOf(b.id) = 0

(* C29: herbivores_eating serves the herbivores from the fittest at the    *)
(* start of the call to the least fit.  When it has returned, for every    *)
(* herbivore that was given something but less than F, every fitter one    *)
(* was given a full F and every less fit one nothing; and below a          *)
(* herbivore that was given nothing, every less fit one was given nothing. *)
C29_PartialMeansFitterFull ==
  lastOp = "herbivores_eating" =>
    /\ \A j, k \in 1..Len(Feedings) :
         j < k =>
           \E a, b \in HerdBefore :
             /\ a.id = Feedings[j].herb.id /\ b.id = Feedings[k].herb.id
             /\ a.fitness >= b.fitness
    /\ pc = "idle" =>
         \A a, b \in HerdBefore :
           /\ (0 < PortionOf(a.id) /\ PortionOf(a.id) < params.Herbivore.F) =>
                /\ b.fitness > a.fitness => PortionOf(b.id) = params.Herbivore.F
                /\ b.fitness < a.fitness => PortionOf(b.id) = 0
           /\ (PortionOf(a.id) = 0 /\ b.fitness < a.fitness) => PortionOf(b.id) = 0

(* herbivores_eating has returned: of three herbivores the fittest was     *)
(* given F, the next what was left, and the least fit nothing              *)
C29_Witness ==
  /\ lastOp = "herbivores_eating" /\ pc = "idle"
  /\ \E a, b, c \in HerdBefore :
       /\ a.fitness > b.fitness /\ b.fitness > c.fitness
       /\ PortionOf(a.id) = params.Herbivore.F
       /\ 0 < PortionOf(b.id) /\ PortionOf(b.id) < params.Herbivore.F
       /\ PortionOf(c.id) = 0

(* the sum of the portions of the first k feedings *)
RECURSIVE Eaten(_)
Eaten(k) == IF k = 0 THEN 0 ELSE Feedings[k].portion + Eaten(k - 1)

(* C30: during herbivores_eating the fodder of the cell goes down by just  *)
(* the portion of each herbivore and is never below 0, so that it is the   *)
(* fodder the call began with (f_max after regrowth) less the sum of the   *)
(* portions; each herbivore gains beta times its portion in weight, is     *)
(* fed once, and eats no more than F.                                      *)
C30_FodderAccounting ==
  lastOp = "herbivores_eating" =>
    /\ map[TheCell].fodder >= 0
    /\ map[TheCell].fodder = before[TheCell].fodder - Eaten(Len(Feedings))
    /\ \A k \in 1..Len(Feedings) :
         LET e == Feedings[k] IN
           /\ e.fodder = before[TheCell].fodder - Eaten(k - 1)
           /\ 0 <= e.portion /\ e.portion <= e.fodder
           /\ e.portion <= params.Herbivore.F
           /\ e.after.weight = e.herb.weight + FixMul(params.Herbivore.beta, e.portion)
           /\ \A j \in 1..Len(Feedings) : Feedings[j].herb.id = e.herb.id => j = k

(* herbivores_eating has returned: a herbivore ate F, the next ate the     *)
(* rest of the fodder, which was less, and none is left                    *)
C30_Witness ==
  /\ lastOp = "herbivores_eating" /\ pc = "idle"
  /\ Len(Feedings) = 2
  /\ Feedings[1].portion = params.Herbivore.F
  /\ 0 < Feedings[2].portion /\ Feedings[2].portion < params.Herbivore.F
  /\ map[TheCell].fodder = 0

(* C31: herbivore_feeding(landscape_fodder) returns the smaller of the     *)
(* appetite and the fodder when there is fodder, and returns 0 and leaves  *)
(* the herbivore's weight as it was when there is none.                    *)
C31_PortionIsMinOrNothing ==
  (lastOp = "herbivore_feeding" /\ Subject # <<>>) =>
    LET e == loop.log[1] IN
      /\ e.fodder > 0 => e.portion = Min(e.herb.appetite, e.fodder)
      /\ e.fodder <= 0 => (e.portion = 0 /\ e.after.weight = e.herb.weight)

(* C32: every feeding phase resets every appetite: when herbivores_eating  *)
(* has returned every herbivore of the cell has the appetite F its species *)
(* has now, those behind the point where the fodder ran out and after a    *)
(* change of F included; and every carnivore makes the first attempt of    *)
(* its hunt with appetite F.                                               *)
C32_AppetiteResetEveryPhase ==
  /\ (lastOp = "herbivores_eating" /\ pc = "idle") =>
       \A k \in 1..Len(map[TheCell].herb_pop) :
         map[TheCell].herb_pop[k].appetite = params.Herbivore.F
  /\ lastOp = "carnivores_eating" =>
       \A k \in 1..Len(Attempts) :
         (\A j \in 1..(k - 1) : Attempts[j].carn.id # Attempts[k].carn.id) =>
           Attempts[k].carn.appetite = params.Carnivore.F

(* the calls of gives_birth the running or last reproduction has made *)
Births == SelectSeq(loop.log, LAMBDA e : e.op = "gives_birth")

(* C33: in reproduction, for each species on its own, every animal that    *)
(* was in the cell at the start is asked to give birth exactly once, with  *)
(* the size N the population had at the start; the newborns join the list  *)
(* only after the pass and are not asked; so when the method returns the   *)
(* species counts between N and 2N animals, the N of before among them.    *)
C33_OneAttemptAgainstSnapshot ==
  lastOp = "reproduction" =>
    \A f \in LiveLists :
      LET old == before[TheCell][f]
          N == Len(old)
          now == map[TheCell][f]
      IN /\ \A k \in 1..Len(Births) :
              /\ Births[k].parent.id \in AllIds(before)
              /\ Births[k].parent.id \in IdsOf(old) => Births[k].pop_size = N
              /\ \A j \in 1..Len(Births) :
                   Births[j].parent.id = Births[k].parent.id => j = k
         /\ pc = "breed" /\ BreedList = f => IdsOf(now) = IdsOf(old)
         /\ IdsOf(old) \subseteq IdsOf(now)
         /\ N <= Len(now) /\ Len(now) <= 2 * N
         /\ (pc = "idle" /\ raised = "none") =>
              \A a \in IdsOf(old) : \E k \in 1..Len(Births) : Births[k].parent.id = a

(* reproduction has returned: a herbivore among three has given birth, the *)
(* newborn is in the cell and was not asked                                *)
C33_Witness ==
  /\ lastOp = "reproduction" /\ pc = "idle" /\ raised = "none"
  /\ Len(before[TheCell].herb_pop) = 3
  /\ Len(map[TheCell].herb_pop) > 3
  /\ Len(before[TheCell].carn_pop) = 2
  /\ Len(Births) = 5

(* C34: an animal asked to give birth with a population size of 1, or with *)
(* gamma = 0 for its species, never does, whatever is drawn: gives_birth   *)
(* returns no newborn, raises nothing and leaves the parent as it was, and *)
(* reproduction leaves a species of one animal, or of gamma = 0, with the  *)
(* animals it had.                                                         *)
C34_NoBirthAloneOrWithoutGamma ==
  lastOp \in {"gives_birth", "reproduction"} =>
    /\ \A k \in 1..Len(Births) :
         LET e == Births[k] IN
           (e.pop_size = 1 \/ params[e.parent.species].gamma = 0) =>
             /\ e.newborn = None
             /\ e.after = e.parent
    /\ lastOp = "reproduction" =>
         \A f \in LiveLists :
           \/ Len(before[TheCell][f]) # 1
                /\ \A k \in 1..Len(before[TheCell][f]) :
                     params[before[TheCell][f][k].species].gamma # 0
           \/ map[TheCell][f] = before[TheCell][f]

(* reproduction has returned with gamma = 0 for the herbivores: three      *)
(* herbivores, one of them heavy enough to give birth, and a carnivore on  *)
(* its own were asked, and the cell holds who it held                      *)
C34_Witness ==
  /\ lastOp = "reproduction" /\ pc = "idle"
  /\ params.Herbivore.gamma = 0
  /\ Len(before[TheCell].herb_pop) = 3
  /\ Len(before[TheCell].carn_pop) = 1
  /\ before[TheCell].carn_pop[1].fitness > 0
  /\ Len(Births) = 4
  /\ map = before

(* C35: gives_birth returns no newborn when the parent weighs less than    *)
(* zeta * (w_birth + sigma_birth), whatever the birth probability and the  *)
(* draws, and the parent's weight is then what it was.                     *)
C35_NoBirthBelowZeta ==
  lastOp \in {"gives_birth", "reproduction"} =>
    \A k \in 1..Len(Births) :
      LET e == Births[k]
          P == params[e.parent.species]
      IN e.parent.weight < FixMul(P.zeta, P.w_birth + P.sigma_birth) =>
           /\ e.newborn = None
           /\ e.after.weight = e.parent.weight

(* a herbivore among ten, fit, and heavy enough for the newborn's weight   *)
(* but lighter than zeta * (w_birth + sigma_birth), was asked to give      *)
(* birth and did not                                                       *)
C35_Witness ==
  /\ lastOp = "gives_birth" /\ raised = "none"
  /\ Len(Births) = 1
  /\ LET e == Births[1]
         P == params[e.parent.species]
     IN /\ e.pop_size = 10
        /\ e.parent.fitness > 0 /\ P.gamma > 0
        /\ e.parent.weight >= FixMul(P.xi, P.w_birth)
        /\ e.parent.weight < FixMul(P.zeta, P.w_birth + P.sigma_birth)
        /\ e.newborn = None

(* C36: after every call that changes an animal's age or weight, here     *)
(* herbivore_feeding, update_age and set_weight, the fitness the animal    *)
(* stores is the fitness of its age and weight now, 0 when its weight is   *)
(* 0 or less, so that no later decision reads a stale fitness.             *)
C36_FitnessNeverStale ==
  lastOp \in {"herbivore_feeding", "update_age", "set_weight"} =>
    \A k \in 1..Len(Subject) :
      Subject[k].fitness
        = FitnessOf(Subject[k].age, Subject[k].weight, params[Subject[k].species])

----------------------------------------------------------------------------
(* Properties of the staging lists *)

(* the species a list holds *)
SpeciesOfList(f) ==
  IF f \in {"herb_pop", "migrating_herbs"} THEN "Herbivore" ELSE "Carnivore"

(* C37: the staging lists are used during migration only.  An animal is    *)
(* staged in the list of its own species, and while the first loop of      *)
(* island_migration runs an animal handed to another cell is in no live    *)
(* list; a cell that has run add_migraters_to_pop has empty staging lists  *)
(* and every animal that was handed over is then in a live list of its     *)
(* species; and outside the two loops of island_migration, so when it has  *)
(* returned and at the start and the end of every annual cycle, both       *)
(* staging lists of every cell are empty.                                  *)
C37_StagingOnlyDuringMigration ==
  /\ \A s \in Slots(map) : Held(map, s).species = SpeciesOfList(s[2])
  /\ pc = "stage" =>
       \A id \in DOMAIN hops : hops[id] >= 1 =>
         /\ CellsOf(map, id, LiveLists) = {}
         /\ CellsOf(map, id, StagingLists) # {}
  /\ pc = "commit" =>
       \A loc \in DOMAIN map : phase[loc] = "commit" =>
         \A f \in StagingLists : map[loc][f] = <<>>
  /\ pc = "migrated" =>
       \A id \in DOMAIN hops : hops[id] >= 1 => CellsOf(map, id, LiveLists) # {}
  /\ pc \notin {"stage", "commit"} =>
       \A loc \in DOMAIN map : \A f \in StagingLists : map[loc][f] = <<>>

(* both loops of island_migration have run: an animal that was handed to   *)
(* another cell and one that was not are in live lists, and no staging     *)
(* list holds anything                                                     *)
C37_Witness ==
  /\ pc = "migrated"
  /\ \E id \in DOMAIN hops : hops[id] = 1 /\ CellsOf(map, id, LiveLists) # {}
  /\ \E id \in DOMAIN hops : hops[id] = 0 /\ CellsOf(map, id, LiveLists) # {}
  /\ \A loc \in DOMAIN map : \A f \in StagingLists : map[loc][f] = <<>>

(* the animal id as m holds it *)
AnimalIn(m, id) == Held(m, CHOOSE s \in Slots(m) : Held(m, s).id = id)

(* C38: when a call of island_migration has run its two loops, nothing was *)
(* raised and every animal is as it was, age, weight and fitness.  An      *)
(* emigrant that was not handed to another cell, because the neighbour it  *)
(* chose is Water, is back in the live list of the cell it started in; an  *)
(* emigrant that was handed over is in the live list of a neighbour that   *)
(* is not Water and no longer in the cell it started in.                   *)
C38_WaterSendsBack ==
  (pc = "migrated" /\ lastOp = "island_migration") =>
    /\ raised = "none"
    /\ \A id \in AllIds(before) :
         /\ AnimalIn(map, id) = AnimalIn(before, id)
         /\ hops[id] = 0 => CellsOf(map, id, Lists) = CellsOf(before, id, LiveLists)
         /\ hops[id] >= 1 =>
              \E origin \in CellsOf(before, id, LiveLists) : \E k \in 1..4 :
                /\ CellsOf(map, id, Lists) = {NeighbourLocs(origin)[k]}
                /\ map[NeighbourLocs(origin)[k]].classname # "Water"
                /\ NeighbourLocs(origin)[k] # origin
         /\ CellsOf(map, id, StagingLists) = {}

(* the one animal of the island, certain to emigrate from a cell that has  *)
(* a Water neighbour, is back in the live list of that cell after the call *)
C38_Witness ==
  /\ pc = "migrated" /\ lastOp = "island_migration" /\ raised = "none"
  /\ \E s \in Slots(before) :
       /\ Slots(before) = {s}
       /\ FixMul(params[Held(before, s).species].mu, Held(before, s).fitness) >= Scale
       /\ ~FourHabitable(s[1])
       /\ hops[Held(before, s).id] = 0
       /\ CellsOf(map, Held(before, s).id, LiveLists) = {s[1]}

----------------------------------------------------------------------------
(* Properties of the neighbour lookup *)

(* C39: on an island that has been constructed every cell that is not      *)
(* Water at (r, c) has (r-1, c), (r+1, c), (r, c+1) and (r, c-1) among the *)
(* keys of the map, so the four lookups of island_migration find a cell.   *)
C39_NeighboursInMap ==
  built = "yes" =>
    \A loc \in DOMAIN map :
      map[loc].classname # "Water" =>
        \A k \in 1..4 : NeighbourLocs(loc)[k] \in DOMAIN map

(* an island has been constructed on which a Desert cell has a Lowland     *)
(* cell to its east                                                        *)
C39_Witness ==
  /\ built = "yes" /\ lastOp = "Island"
  /\ \E loc \in DOMAIN map :
       /\ map[loc].classname = "Desert"
       /\ NeighbourLocs(loc)[3] \in DOMAIN map
       /\ map[NeighbourLocs(loc)[3]].classname = "Lowland"

----------------------------------------------------------------------------
(* Properties of the ages *)

(* the cycles an animal of the island has been aged by: those that have    *)
(* returned, and the running one when its second loop has passed the cell  *)
(* the animal is in                                                        *)
YearsAged(id) ==
  LET loc == (CHOOSE s \in Slots(map) : Held(map, s).id = id)[1]
  IN step + (IF pc = "post" /\ phase[loc] = "post" THEN 1 ELSE 0)

(* the age an animal of the island has, less the cycles it was aged by *)
AgeAtStepZero(id) == AnimalIn(map, id).age - YearsAged(id)

(* C40: when annual_cycle_island has returned, every animal that was on    *)
(* the island when the call began and is still there is one year older,    *)
(* in whichever cell it is now, and every animal born in the call has age  *)
(* 1. Over any number of cycles the age of a living animal less the cycles *)
(* it was aged by never changes, an animal that is placed comes with the   *)
(* age of its record and an animal that is born comes with age 0: after k  *)
(* cycles an animal placed with age a has age a + k.                       *)
C40_OneYearOlderEachCycle ==
  /\ []((lastOp = "annual_cycle_island" /\ pc = "idle" /\ raised = "none") =>
          \A s \in Slots(map) :
            Held(map, s).age = AgeBefore(Held(map, s).id) + 1)
  /\ [][/\ \A id \in AllIds(map) \cap AllIds(map)' :
             AgeAtStepZero(id)' = AgeAtStepZero(id)
        /\ \A id \in AllIds(map)' \ AllIds(map) :
             IF lastOp' = "place_population"
               THEN \E i \in 1..Len(arg') : \E j \in 1..Len(arg'[i].pop) :
                      AnimalIn(map, id).age' = Get(arg'[i].pop[j].age)
               ELSE /\ lastOp' = "annual_cycle_island" /\ pc = "pre"
                    /\ AnimalIn(map, id).age' = 0]_vars

(* the second cycle after a placement has returned, and an animal placed   *)
(* with age 5 that moved to another cell in it has age 7                   *)
C40_Witness ==
  /\ lastOp = "annual_cycle_island" /\ pc = "idle" /\ raised = "none"
  /\ step = 2
  /\ \E s \in Slots(map) :
       /\ Held(map, s).id \in AllIds(before)
       /\ s[1] \notin CellsOf(before, Held(map, s).id, Lists)
       /\ Held(map, s).age = 7

====
